---------------------------- MODULE Spec2Model ----------------------------
(***************************************************************************)
(* A model of the Trade_dex backend's ingestion-and-broadcast pipeline:    *)
(*   services/quicknode_ws.rs   log subscription, dedup, fetch tasks,      *)
(*                              construct_trade                            *)
(*   services/trade_stream.rs   reconnect loop, price task, main loop      *)
(*   services/jupiter.rs        price oracle                               *)
(*   services/pair_mapping.rs   pair string -> mints                       *)
(*   websocket/manager.rs       ConnectionManager                          *)
(*   websocket/handler.rs       per-connection receive and send tasks      *)
(*                                                                         *)
(* Conventions.  Option<T> is a sequence: <<>> is None, <<v>> is Some(v).  *)
(* An f64 is a record [k, n, d]: k = "fin" with the reduced fraction n/d,  *)
(* or "nan", or "inf" with the sign in n; arithmetic on finite values is   *)
(* exact (rounding, overflow and underflow of f64 are not modelled).       *)
(* Token amounts are integers (UI amounts in a common unit).               *)
(***************************************************************************)
EXTENDS Integers, Sequences, FiniteSets, Bags, TLC

(***************************************************************************)
(* Option<T>                                                               *)
(***************************************************************************)
None == <<>>
Some(v) == <<v>>
IsSome(o) == o /= <<>>
Unwrap(o) == o[1]
UnwrapOr(o, dflt) == IF o = <<>> THEN dflt ELSE o[1]

(***************************************************************************)
(* f64                                                                     *)
(***************************************************************************)
Abs(i) == IF i < 0 THEN -i ELSE i

RECURSIVE Gcd(_, _)
Gcd(a, b) == IF b = 0 THEN a ELSE Gcd(b, a % b)

NaN == [k |-> "nan", n |-> 0, d |-> 1]
PInf == [k |-> "inf", n |-> 1, d |-> 1]
NInf == [k |-> "inf", n |-> -1, d |-> 1]

\* The finite value n/d (d /= 0), reduced, with a positive denominator.
Fin(n, d) ==
    LET g == Gcd(Abs(n), Abs(d))
        s == IF d < 0 THEN -1 ELSE 1
    IN [k |-> "fin", n |-> (s * n) \div g, d |-> Abs(d) \div g]

F(i) == Fin(i, 1)

is_nan(x) == x.k = "nan"
is_infinite(x) == x.k = "inf"
is_finite(x) == x.k = "fin"

\* x <= 0.0 and x > 0.0 of f64: every comparison with NaN is false.
FLeZero(x) == x.k /= "nan" /\ x.n <= 0
FGtZero(x) == x.k /= "nan" /\ x.n > 0
FGeZero(x) == x.k /= "nan" /\ x.n >= 0

\* a / b for integer-valued finite a, b (IEEE: x/0 is inf or NaN).
FDivInt(a, b) ==
    IF b /= 0 THEN Fin(a, b)
    ELSE IF a = 0 THEN NaN ELSE IF a > 0 THEN PInf ELSE NInf

\* x * i for an f64 x and an integer-valued finite i.
FMulInt(x, i) ==
    CASE x.k = "fin" -> Fin(x.n * i, x.d)
      [] x.k = "nan" -> NaN
      [] OTHER -> IF i = 0 THEN NaN
                  ELSE IF (x.n > 0) = (i > 0) THEN PInf ELSE NInf

\* a / b for f64 a, b, both finite (the oracle's ratio of two USD prices).
FDiv(a, b) ==
    IF b.n /= 0 THEN Fin(a.n * b.d, a.d * b.n)
    ELSE IF a.n = 0 THEN NaN ELSE IF a.n > 0 THEN PInf ELSE NInf

\* a + b and a <= b for finite f64 a, b (the aggregates of stored prices).
FAdd(a, b) == Fin(a.n * b.d + b.n * a.d, a.d * b.d)
FLe(a, b) == a.n * b.d <= b.n * a.d

(***************************************************************************)
(* The AllowedToken table                                                  *)
(***************************************************************************)
SOL_MINT == "So11111111111111111111111111111111111111112"
USDC_MINT == "EPjFWdd5AufqSSqeM2qN1xzybapC8G4wEGGkZwyTDt1v"
USDT_MINT == "Es9vMFrzaCERmJfrF4H2FYD4KCoNkY11McCe8BenwNYB"
BONK_MINT == "DezXAZ8z7PnrnRJjz3wXBoRgixCa6xjnB7YaB1pPB263"
JUP_MINT == "JUPyiwrYJFskUPiHa7hkeR8VUtAeFoSYbKedZNsDvCN"
WIF_MINT == "EKpQGSJtjMFqKZ9KQanSqYXRcF8fBopzLHYxdM65zcjm"
RAY_MINT == "4k3Dyjzvzp8eMZWUXbBCjEvwSkkk59S5iCNLY3QrkX6R"

\* A mint that is in no table (some other token of the chain).
OTHER_MINT == "OtherMint1111111111111111111111111111111111"

\* (A faulty variant lets the "UNKNOWN" placeholder pass.)
is_allowed_mint_or_unknown(mint) ==
    mint \in {SOL_MINT, USDC_MINT, USDT_MINT, BONK_MINT, JUP_MINT, WIF_MINT, RAY_MINT, "UNKNOWN"}

is_allowed_mint(mint) ==
    mint \in {SOL_MINT, USDC_MINT, USDT_MINT, BONK_MINT, JUP_MINT, WIF_MINT, RAY_MINT}

\* A symbol is a one-word string.
mint_to_symbol(mint) ==
    CASE mint = SOL_MINT -> <<"SOL">>
      [] mint = USDC_MINT -> <<"USDC">>
      [] mint = USDT_MINT -> <<"USDT">>
      [] mint = BONK_MINT -> <<"BONK">>
      [] mint = JUP_MINT -> <<"JUP">>
      [] mint = WIF_MINT -> <<"WIF">>
      [] mint = RAY_MINT -> <<"RAY">>
      [] OTHER -> <<"UNKNOWN">>

(***************************************************************************)
(* construct_trade                                                         *)
(***************************************************************************)
JUP6_PROGRAM == "JUP6LkbZbjS1jKKwapdHNy74zcZ3tLUZoi5QNyVTaV4"
JUP4_PROGRAM == "JUP4Fb2cqiRUcaTHdrPC8h2gNsA2ETXiPDD33WcGuJB"
RAYDIUM_PROGRAM == "675kPX9MHTjS2zt1qfr1NYHuzeLXfQM9H24wFSUt1Mp8"
ORCA_PROGRAM == "9W959DqEETiGZocYWCQPaJ6sBmUzgfxXfqGeTEdp3aQP"
METEORA_PROGRAM == "9H6tua7jkLhdm3w8BvgpTn5LZNU7g4ZynDmCiNN3q6Rp"
PHOENIX_PROGRAM == "PhoeNiXZ8ByJGLkxNfZRnkUfjvmuYqLRJi5i4Z2j3Yc"

\* A TokenBalance is [mint, ui]: ui is ui_token_amount.ui_amount, an Option.
\* The value a balance contributes to its mint's sum.
BalanceAmount(balance) == UnwrapOr(balance.ui, 0)

\* pre_map / post_map: the keys, and the sum under a key.
MapKeys(balances) == {balances[i].mint : i \in DOMAIN balances}

\* (A faulty variant keeps the amount of the mint's last account instead of
\* adding the accounts up.)
MapSum_last(balances, mint) ==
    LET accounts == {i \in DOMAIN balances : balances[i].mint = mint}
    IN IF accounts = {} THEN 0
       ELSE BalanceAmount(balances[CHOOSE i \in accounts : \A j \in accounts : j <= i])

RECURSIVE MapSum(_, _)
MapSum(balances, mint) ==
    IF balances = <<>> THEN 0
    ELSE (IF Head(balances).mint = mint THEN BalanceAmount(Head(balances)) ELSE 0)
         + MapSum(Tail(balances), mint)

\* map.get(mint).copied().unwrap_or(0.0)
MapGetOr0(balances, mint) ==
    IF mint \in MapKeys(balances) THEN MapSum(balances, mint) ELSE 0

\* sort_by(|a, b| b.1.partial_cmp(a.1)): a stable sort, largest delta first, of
\* the entries in the order the hash map yields them.
RECURSIVE InsertDesc(_, _, _)
InsertDesc(sorted, x, delta) ==
    IF sorted = <<>> THEN <<x>>
    ELSE IF delta[Head(sorted)] >= delta[x]
         THEN <<Head(sorted)>> \o InsertDesc(Tail(sorted), x, delta)
         ELSE <<x>> \o sorted

\* (A faulty variant leaves the entries in the hash map's order.)
SortDesc_unsorted(entries, delta) == entries

RECURSIVE SortDesc(_, _)
SortDesc(entries, delta) ==
    IF entries = <<>> THEN <<>>
    ELSE InsertDesc(SortDesc(SubSeq(entries, 1, Len(entries) - 1), delta),
                    entries[Len(entries)], delta)

\* logs.join(" ").contains(program): a log line is a sequence of words.
LogsContain(logs, program) ==
    \E i \in DOMAIN logs : \E j \in DOMAIN logs[i] : logs[i][j] = program

DexProgram(log_messages) ==
    IF log_messages = None THEN "Unknown"
    ELSE LET logs == Unwrap(log_messages)
         IN IF LogsContain(logs, JUP6_PROGRAM) THEN "Jupiter v6"
            ELSE IF LogsContain(logs, JUP4_PROGRAM) THEN "Jupiter v4"
            ELSE IF LogsContain(logs, RAYDIUM_PROGRAM) THEN "Raydium"
            ELSE IF LogsContain(logs, ORCA_PROGRAM) THEN "Orca"
            ELSE IF LogsContain(logs, METEORA_PROGRAM) THEN "Meteora"
            ELSE IF LogsContain(logs, PHOENIX_PROGRAM) THEN "Phoenix"
            ELSE "Unknown"

\* The allow-list test on the two candidate mints (a faulty variant tests with "and").
RejectedByAllowList_and(base_mint, quote_mint) ==
    ~is_allowed_mint(base_mint) /\ ~is_allowed_mint(quote_mint)

RejectedByAllowList(base_mint, quote_mint) ==
    ~is_allowed_mint(base_mint) \/ ~is_allowed_mint(quote_mint)

\* final_price (a faulty variant divides the other way round).
FinalPrice_inverted(base_amount, quote_amount) ==
    IF quote_amount > 0 THEN FDivInt(base_amount, quote_amount) ELSE F(0)

FinalPrice(base_amount, quote_amount) ==
    IF base_amount > 0 THEN FDivInt(quote_amount, base_amount) ELSE F(0)

\* side, from the base mint's signed delta (a faulty variant tests < 0.0).
Side_flipped(base_delta) == IF base_delta < 0 THEN "buy" ELSE "sell"

Side(base_delta) == IF base_delta > 0 THEN "buy" ELSE "sell"

\* The signed aggregated delta of a mint: post - pre over all accounts.
SignedDelta(meta, mint) ==
    MapGetOr0(UnwrapOr(meta.post_token_balances, <<>>), mint)
    - MapGetOr0(UnwrapOr(meta.pre_token_balances, <<>>), mint)

\* all_mints
AllMints(meta) ==
    MapKeys(UnwrapOr(meta.pre_token_balances, <<>>))
    \cup MapKeys(UnwrapOr(meta.post_token_balances, <<>>))

\* The keys of mint_deltas: the mints whose |post - pre| is > 0 (a faulty
\* variant keeps the mints of zero delta too).
MintDeltaKeys_all(meta) == AllMints(meta)

MintDeltaKeys(meta) == {m \in AllMints(meta) : Abs(SignedDelta(meta, m)) > 0}

\* construct_trade(signature, slot, tx_data).  Two things the function reads are
\* not among its arguments: the iteration order of the mint_deltas hash map
\* (iter_order: a sequence that lists every key once) and the clock (now).
construct_trade(signature, slot, tx_data, iter_order, now) ==
    IF tx_data.meta = None THEN None
    ELSE
    LET meta == Unwrap(tx_data.meta)
        pre_balances == UnwrapOr(meta.pre_token_balances, <<>>)
        post_balances == UnwrapOr(meta.post_token_balances, <<>>)
        keys == MintDeltaKeys(meta)
        mint_deltas == [m \in keys |-> Abs(SignedDelta(meta, m))]
        sorted_deltas == SortDesc(iter_order, mint_deltas)
        base_mint == IF Len(sorted_deltas) >= 1 THEN sorted_deltas[1] ELSE "UNKNOWN"
        quote_mint == IF Len(sorted_deltas) >= 2 THEN sorted_deltas[2] ELSE "UNKNOWN"
        pre_base == MapGetOr0(pre_balances, base_mint)
        post_base == MapGetOr0(post_balances, base_mint)
        base_amount == Abs(post_base - pre_base)
        pre_quote == MapGetOr0(pre_balances, quote_mint)
        post_quote == MapGetOr0(post_balances, quote_mint)
        quote_amount == Abs(post_quote - pre_quote)
        final_price == FinalPrice(base_amount, quote_amount)
        base_delta == post_base - pre_base
    IN  IF RejectedByAllowList(base_mint, quote_mint) THEN None
        ELSE Some([id |-> signature,
                   timestamp |-> UnwrapOr(tx_data.block_time, now),
                   base_symbol |-> mint_to_symbol(base_mint),
                   quote_symbol |-> mint_to_symbol(quote_mint),
                   base_mint |-> base_mint,
                   quote_mint |-> quote_mint,
                   price |-> final_price,
                   amount |-> base_amount,
                   side |-> Side(base_delta),
                   total_value |-> FMulInt(final_price, base_amount),
                   dex_program |-> DexProgram(meta.log_messages),
                   slot |-> slot])

(***************************************************************************)
(* pair_mapping.rs.  A string is a sequence of words; "/" is the word the  *)
(* pair is split on: "JUP/USDC" is <<"JUP", "/", "USDC">>.                 *)
(***************************************************************************)
symbol_to_mint(symbol) ==
    CASE symbol = <<"SOL">> -> Some(SOL_MINT)
      [] symbol = <<"USDC">> -> Some(USDC_MINT)
      [] symbol = <<"USDT">> -> Some(USDT_MINT)
      [] symbol = <<"BONK">> -> Some(BONK_MINT)
      [] symbol = <<"JUP">> -> Some(JUP_MINT)
      [] symbol = <<"WIF">> -> Some(WIF_MINT)
      [] symbol = <<"RAY">> -> Some(RAY_MINT)
      [] OTHER -> None

\* pair.split('/').collect(): the parts between the separators (n separators
\* give n + 1 parts, empty ones included).
RECURSIVE Split(_)
Split(str) ==
    IF str = <<>> THEN <<<<>>>>
    ELSE LET rest == Split(Tail(str))
         IN IF Head(str) = "/" THEN <<<<>>>> \o rest
            ELSE <<<<Head(str)>> \o Head(rest)>> \o Tail(rest)

parse_pair(pair) ==
    LET parts == Split(pair)
    IN IF Len(parts) = 2 THEN Some(<<parts[1], parts[2]>>) ELSE None

pair_to_mints(pair) ==
    IF parse_pair(pair) = None THEN None
    ELSE LET symbols == Unwrap(parse_pair(pair))
         IN IF symbol_to_mint(symbols[1]) = None THEN None
            ELSE IF symbol_to_mint(symbols[2]) = None THEN None
            ELSE Some(<<Unwrap(symbol_to_mint(symbols[1])), Unwrap(symbol_to_mint(symbols[2]))>>)

(***************************************************************************)
(* Results.  A Result<T> is [ok |-> TRUE, val |-> <<v>>] or                *)
(* [ok |-> FALSE, val |-> <<>>].                                           *)
(***************************************************************************)
Ok(v) == [ok |-> TRUE, val |-> <<v>>]
Err == [ok |-> FALSE, val |-> <<>>]

(***************************************************************************)
(* jupiter.rs.  The oracle answers one lookup (?ids=<mint>) with a reply:  *)
(* [sent, json, price]: the request went through, the body decoded as a    *)
(* map of PriceDataV3, and the usdPrice under the mint (None: no entry).   *)
(***************************************************************************)
\* One lookup: Ok(usd_price), or Err (transport, decoding, "not found").
Lookup(reply) ==
    IF ~reply.sent \/ ~reply.json \/ reply.price = None THEN Err
    ELSE Ok(Unwrap(reply.price))

\* get_price(base_mint, quote_mint); replies[m] is the oracle's reply to the
\* lookup of mint m.
get_price(base_mint, quote_mint, replies) ==
    IF quote_mint = USDC_MINT
    THEN Lookup(replies[base_mint])
    ELSE IF ~Lookup(replies[base_mint]).ok THEN Err
         ELSE IF ~Lookup(replies[quote_mint]).ok THEN Err
         ELSE LET base_usd == Unwrap(Lookup(replies[base_mint]).val)
                  quote_usd == Unwrap(Lookup(replies[quote_mint]).val)
              IN IF FGtZero(quote_usd) THEN Ok(FDiv(base_usd, quote_usd)) ELSE Err

get_sol_usdc_price(replies) == get_price(SOL_MINT, USDC_MINT, replies)

(***************************************************************************)
(* solana.rs.  get_transaction on an HTTP response                         *)
(* [sent, status, json, result]: the request went through, the status, the *)
(* body is JSON, and its "result" member (None: absent; else Some(value),  *)
(* value = [null |-> TRUE] or [null |-> FALSE, decodes, data]).            *)
(***************************************************************************)
get_transaction(response) ==
    IF ~response.sent THEN Err
    ELSE IF response.status = 429 THEN Ok(None)
    ELSE IF ~response.json THEN Err
    ELSE IF response.result = None THEN Ok(None)
    ELSE IF Unwrap(response.result).null THEN Ok(None)
    ELSE Ok(Some(Unwrap(response.result)))

(***************************************************************************)
(* serde_json.  A JSON number is the f64 when it is finite; serde_json     *)
(* writes a NaN or an infinity as null.  An object is a record.            *)
(***************************************************************************)
JNull == [k |-> "null", n |-> 0, d |-> 1]
JsonF64(x) == IF x.k = "fin" THEN x ELSE JNull

\* serde_json::to_string(&trade): every field of Trade.
TradeJson(trade) ==
    [id |-> trade.id,
     timestamp |-> trade.timestamp,
     base_symbol |-> trade.base_symbol,
     quote_symbol |-> trade.quote_symbol,
     base_mint |-> trade.base_mint,
     quote_mint |-> trade.quote_mint,
     price |-> JsonF64(trade.price),
     amount |-> trade.amount,
     side |-> trade.side,
     total_value |-> JsonF64(trade.total_value),
     dex_program |-> trade.dex_program,
     slot |-> trade.slot]

\* The price task's json!({...}): seven members, amount 0.0, side "price".
PriceJson(now, base_symbol, quote_symbol, price) ==
    [id |-> <<"price", now>>,
     timestamp |-> now,
     base_symbol |-> base_symbol,
     quote_symbol |-> quote_symbol,
     price |-> JsonF64(price),
     amount |-> 0,
     side |-> "price"]

(***************************************************************************)
(* State                                                                   *)
(***************************************************************************)
VARIABLES
    \* construct_trade taken alone: the record and the call's result
    tx_data,            \* the TransactionData handed to construct_trade
    ct_pc,              \* "call" before the call, "done" after it
    ct_out,             \* the Option<Trade> it returned
    \* the reconnect task and the run of start_subscription it is in
    sub_pc,             \* "connect", "read" (at read.next()), "sleep"
    run_result,         \* what the last run returned: "none", "ok", "err"
    log_notif,          \* the log notification handled last in this run
    text_parse,         \* from_str on the run's last Text frame: "none", "ok", "failed"
    seen_signatures,    \* the run's HashSet of signatures
    notified,           \* per signature: log notifications handled in this run
    spawned,            \* per signature: fetch tasks spawned in this run
    spawn_total,        \* fetch tasks spawned since startup
    tasks,              \* the bag of live fetch tasks
    injected,           \* trades another sender has put on the trade channel
    fetch_calls,        \* get_transaction calls the fetch tasks have made
    fetch_failed,       \* of these, the calls that returned Err or Ok(None)
    constructed,        \* trades the fetch tasks have constructed
    delivered,          \* trades the fetch tasks have sent on the trade channel
    trade_ch,           \* the mpsc channel of trades (trade_tx -> trade_rx)
    \* the main loop of TradeStreamService::start
    sup_pc,             \* "recv", "oracle", "store", "broadcast"
    sup_recv,           \* the trade as trade_rx.recv() returned it
    sup_trade,          \* the local `trade` (mutable)
    sup_lookup,         \* what get_sol_usdc_price returned for that trade
    current_price,      \* the local current_price
    oracle_last,        \* the price of the loop's last lookup that succeeded
    trades_table,       \* the rows inserted into the trades table
    last_store,         \* the last call of store_trade: argument and result
    store_calls,        \* calls of store_trade made for the trade in hand
    received,           \* trades trade_rx.recv() has returned
    \* the price task
    tick_pc,            \* "sleep", "read", "query", "broadcast"
    tick_pair,          \* the local selected_pair
    tick_mints,         \* the mints get_price is asked for
    tick_msg,           \* the local price_json
    \* ConnectionManager and the connections
    connections,        \* the keys of the connections map
    selected_pair,      \* the selected_pair cell
    last_select,        \* the pair of the last select_pair frame handled
    conn_pc,            \* handle_socket per connection: "none", "wait", "done"
    recv_pc,            \* receive_task: "none", "run", "done"
    send_pc,            \* send_task: "none", "run", "done"
    rx_alive,           \* the connection's broadcast::Receiver exists
    ping_q,             \* pongs queued on the connection's ping channel
    recv_log,           \* what the receive tasks logged for the last Text frame
    rxq,                \* the messages the channel retains for that receiver
    lagged,             \* the receiver has missed messages (next recv: Lagged)
    last_broadcast,     \* the last call of broadcast: argument, count, outcome
    \* the OHLCV query
    ohlcv_out           \* the last call of get_ohlcv: arguments and result

tradeVars == <<tx_data, ct_pc, ct_out>>
fetchVars == <<fetch_calls, fetch_failed, constructed, delivered>>
subVars == <<sub_pc, run_result, log_notif, text_parse, seen_signatures, notified, spawned>>
taskVars == <<spawn_total, tasks, injected, fetchVars>>
supVars ==
    <<sup_pc, sup_recv, sup_trade, sup_lookup, current_price, oracle_last, trades_table, last_store,
      store_calls, received>>
tickVars == <<tick_pc, tick_pair, tick_mints, tick_msg>>
connVars == <<connections, conn_pc, recv_pc, send_pc, rx_alive, ping_q, recv_log>>
selVars == <<selected_pair, last_select>>
chanVars == <<rxq, lagged, last_broadcast>>
queryVars == <<ohlcv_out>>

vars == <<queryVars, tradeVars, subVars, taskVars, trade_ch, supVars, tickVars, connVars, selVars, chanVars>>

(***************************************************************************)
(* Bounds and input domains                                                *)
(***************************************************************************)
\* Token-balance entries (pre and post together) of an enumerated record.
MaxBalances == 3

\* The mints and UI amounts of the enumerated records.
RecordMints == {SOL_MINT, USDC_MINT, OTHER_MINT}
RecordAmounts == {1, 2}

\* The orders in which the mint_deltas hash map of a record may yield its keys:
\* a std HashMap's iteration order is arbitrary (its hasher is seeded per map).
Perms(S) == {p \in [1..Cardinality(S) -> S] : \A i, j \in DOMAIN p : i /= j => p[i] /= p[j]}
IterOrders(record) ==
    IF record.meta = None THEN {<<>>} ELSE Perms(MintDeltaKeys(Unwrap(record.meta)))

\* Clock readings (unix seconds) and block times.
Clock == {120, 180}
BlockTime == 60

TokenBalances == [mint : RecordMints, ui : {Some(a) : a \in RecordAmounts}]
SeqsUpTo(S, n) == UNION {[1..k -> S] : k \in 0..n}

Meta(pre, post, logs) ==
    [pre_token_balances |-> pre, post_token_balances |-> post, log_messages |-> logs]
TxData(block_time, meta) == [block_time |-> block_time, meta |-> meta]
Bal(mint, amount) == [mint |-> mint, ui |-> Some(amount)]

\* Every record with at most MaxBalances entries in its two snapshots together.
EnumeratedRecords ==
    UNION {{TxData(Some(BlockTime), Some(Meta(Some(pre), Some(post), Some(<<>>)))) :
                post \in SeqsUpTo(TokenBalances, MaxBalances - Len(pre))} :
           pre \in SeqsUpTo(TokenBalances, MaxBalances)}

\* The record of the spec's worked example: mintA 10 -> 15, mintB 100 -> 40.
ExampleRecord ==
    TxData(Some(BlockTime),
           Some(Meta(Some(<<Bal(SOL_MINT, 10), Bal(USDC_MINT, 100)>>),
                     Some(<<Bal(SOL_MINT, 15), Bal(USDC_MINT, 40)>>),
                     Some(<<<<"Program", JUP6_PROGRAM, "invoke">>>>))))

\* Records outside the enumeration: no meta, no balance lists, no ui amount, no
\* block time, balances spread over several accounts, three mints, venue logs.
SpecialRecords ==
    { ExampleRecord,
      TxData(Some(BlockTime), None),
      TxData(None, Some(Meta(None, None, None))),
      TxData(None, Some(Meta(Some(<<Bal(JUP_MINT, 4)>>),
                             Some(<<Bal(JUP_MINT, 1), Bal(USDC_MINT, 6)>>), None))),
      TxData(Some(BlockTime),
             Some(Meta(Some(<<[mint |-> SOL_MINT, ui |-> None], Bal(USDC_MINT, 9)>>),
                       Some(<<Bal(SOL_MINT, 3), Bal(USDC_MINT, 3)>>),
                       Some(<<<<"Program", RAYDIUM_PROGRAM>>, <<"Program", JUP4_PROGRAM>>>>)))),
      \* the worked example's balances spread over accounts, beside an unchanged mint
      TxData(None,
             Some(Meta(Some(<<Bal(JUP_MINT, 4), Bal(OTHER_MINT, 7), Bal(USDT_MINT, 100), Bal(JUP_MINT, 6)>>),
                       Some(<<Bal(USDT_MINT, 40), Bal(JUP_MINT, 15), Bal(OTHER_MINT, 7)>>),
                       None))),
      \* OTHER_MINT moves between two accounts (net 0), SOL and USDC change
      TxData(Some(BlockTime),
             Some(Meta(Some(<<Bal(OTHER_MINT, 50), Bal(OTHER_MINT, 0), Bal(SOL_MINT, 2), Bal(USDC_MINT, 8)>>),
                       Some(<<Bal(OTHER_MINT, 0), Bal(OTHER_MINT, 50), Bal(SOL_MINT, 1), Bal(USDC_MINT, 11)>>),
                       Some(<<<<"Program", ORCA_PROGRAM>>>>)))),
      \* JUP moves between two accounts (net 0), SOL and USDC change
      TxData(Some(BlockTime),
             Some(Meta(Some(<<Bal(JUP_MINT, 50), Bal(JUP_MINT, 0), Bal(SOL_MINT, 2), Bal(USDC_MINT, 8)>>),
                       Some(<<Bal(JUP_MINT, 0), Bal(JUP_MINT, 50), Bal(SOL_MINT, 1), Bal(USDC_MINT, 11)>>),
                       Some(<<>>)))),
      \* three mints change, the largest delta is a mint outside the allow-list
      TxData(Some(BlockTime),
             Some(Meta(Some(<<Bal(OTHER_MINT, 9), Bal(SOL_MINT, 2), Bal(USDC_MINT, 8)>>),
                       Some(<<Bal(OTHER_MINT, 1), Bal(SOL_MINT, 5), Bal(USDC_MINT, 3)>>),
                       Some(<<>>)))),
      \* three mints change, the smallest delta is the mint outside the allow-list
      TxData(Some(BlockTime),
             Some(Meta(Some(<<Bal(OTHER_MINT, 2), Bal(SOL_MINT, 2), Bal(USDC_MINT, 8)>>),
                       Some(<<Bal(OTHER_MINT, 1), Bal(SOL_MINT, 5), Bal(USDC_MINT, 3)>>),
                       Some(<<<<"Program", PHOENIX_PROGRAM>>, <<METEORA_PROGRAM>>>>)))) }

Records == EnumeratedRecords \cup SpecialRecords

\* The signature and slot of the construct_trade call taken alone.
CallSignature == <<"sig", 1>>
CallSlot == 7

(***************************************************************************)
(* Bounds and input domains of the running system                          *)
(***************************************************************************)
\* Signatures the upstream feed may notify.
NumSigs == 3
Sig(i) == <<"sig", i>>
Sigs == {Sig(i) : i \in 1..NumSigs}

\* The cap of the seen-set (1000 in quicknode_ws.rs:219), scaled down.
SeenCap == 2
\* Log notifications of one signature handled within one run.
MaxRepeat == 2
\* Fetch tasks spawned since startup.
MaxSpawns == 2
\* Fetch tasks spawned since startup when the whole pipeline runs.
MaxFetches == 1
\* The capacity of the trade channel (100 in trade_stream.rs:60), scaled down.
TradeChanCap == 1
\* The capacity of the broadcast channel (1000 in manager.rs:20), scaled down.
BroadcastCap == 2
\* The client connections accepted since startup.
Conns == {1, 2}
\* Pongs queued for one connection.
MaxPings == 1
\* Trades a sender other than a fetch task puts on the trade channel (SpecSup).
MaxInject == 2

\* Slots of the log notifications.
Slots == {7}

\* The fallback of the main loop when the oracle lookup fails.
FallbackPrice == 150

\* usdPrice values the oracle may answer with, and its replies to one lookup.
UsdPrices == {F(-2), F(0), F(140)}
Replies ==
    {[sent |-> FALSE, json |-> FALSE, price |-> None],
     [sent |-> TRUE, json |-> FALSE, price |-> None],
     [sent |-> TRUE, json |-> TRUE, price |-> None]}
    \cup {[sent |-> TRUE, json |-> TRUE, price |-> Some(p)] : p \in UsdPrices}

\* The oracle's replies when the connections are modelled: a failure or a price.
HubReplies ==
    {[sent |-> FALSE, json |-> FALSE, price |-> None],
     [sent |-> TRUE, json |-> TRUE, price |-> Some(F(140))]}

\* Pair strings a client may select; the cell starts as "SOL/USDC".
DefaultPair == <<"SOL", "/", "USDC">>
ClientPairs ==
    {<<"JUP", "/", "USDC">>, <<"JUP", "/", "SOL">>, <<"DOGE", "/", "USDC">>, <<"JUPUSDC">>}

\* The records getTransaction may answer with in the running system.
FetchedRecords ==
    { ExampleRecord,
      TxData(Some(BlockTime), None),
      \* JUP 4 -> 1, USDC 0 -> 6
      TxData(None, Some(Meta(Some(<<Bal(JUP_MINT, 4)>>),
                             Some(<<Bal(JUP_MINT, 1), Bal(USDC_MINT, 6)>>), None))),
      \* one mint changes
      TxData(None, Some(Meta(Some(<<Bal(SOL_MINT, 1)>>), Some(<<Bal(SOL_MINT, 2)>>), None))),
      \* three mints change, the largest delta is a mint outside the allow-list
      TxData(Some(BlockTime),
             Some(Meta(Some(<<Bal(OTHER_MINT, 9), Bal(SOL_MINT, 2), Bal(USDC_MINT, 8)>>),
                       Some(<<Bal(OTHER_MINT, 1), Bal(SOL_MINT, 5), Bal(USDC_MINT, 3)>>),
                       Some(<<>>)))) }

\* HTTP responses to getTransaction.
Responses ==
    {[sent |-> FALSE, status |-> 0, json |-> FALSE, result |-> None],
     [sent |-> TRUE, status |-> 429, json |-> FALSE, result |-> None],
     [sent |-> TRUE, status |-> 200, json |-> FALSE, result |-> None],
     [sent |-> TRUE, status |-> 200, json |-> TRUE, result |-> None],
     [sent |-> TRUE, status |-> 200, json |-> TRUE, result |-> Some([null |-> TRUE])],
     [sent |-> TRUE, status |-> 200, json |-> TRUE,
      result |-> Some([null |-> FALSE, decodes |-> FALSE])]}
    \cup {[sent |-> TRUE, status |-> 200, json |-> TRUE,
           result |-> Some([null |-> FALSE, decodes |-> TRUE, data |-> r])] : r \in FetchedRecords}

(***************************************************************************)
(* ConnectionManager (websocket/manager.rs)                                *)
(***************************************************************************)
InitHub ==
    /\ connections = {}
    /\ selected_pair = DefaultPair
    /\ last_select = None
    /\ conn_pc = [c \in Conns |-> "none"]
    /\ recv_pc = [c \in Conns |-> "none"]
    /\ send_pc = [c \in Conns |-> "none"]
    /\ rx_alive = [c \in Conns |-> FALSE]
    /\ ping_q = [c \in Conns |-> 0]
    /\ recv_log = "none"
    /\ rxq = [c \in Conns |-> <<>>]
    /\ lagged = [c \in Conns |-> FALSE]
    /\ last_broadcast = None

\* The receivers of the broadcast channel that exist.
Receivers == {c \in Conns : rx_alive[c]}

\* What the channel retains for one receiver after a send: at most BroadcastCap
\* messages, the oldest one given up for the new one.
Retained(queue, message) ==
    IF Len(queue) >= BroadcastCap THEN Tail(queue) \o <<message>> ELSE queue \o <<message>>

\* broadcast(message) -> usize.  A faulty variant publishes only when more than one
\* connection is registered; another waits for room in every receiver's buffer.
Broadcast_more_than_one(message) ==
    LET count == Cardinality(connections)
        sent == count > 1 /\ Receivers /= {}
    IN /\ rxq' = [c \in Conns |-> IF sent /\ rx_alive[c] THEN Retained(rxq[c], message) ELSE rxq[c]]
       /\ lagged' = [c \in Conns |-> lagged[c] \/ (sent /\ rx_alive[c] /\ Len(rxq[c]) >= BroadcastCap)]
       /\ last_broadcast' = Some([message |-> message, count |-> count,
                                  outcome |-> IF count = 0 THEN "none" ELSE IF sent THEN "ok" ELSE "err",
                                  receivers |-> IF sent THEN Receivers ELSE {}])

Broadcast_waits_for_room(message) ==
    LET count == Cardinality(connections)
        sent == count > 0 /\ Receivers /= {}
    IN /\ \A c \in connections : Len(rxq[c]) < BroadcastCap
       /\ rxq' = [c \in Conns |-> IF sent /\ rx_alive[c] THEN Retained(rxq[c], message) ELSE rxq[c]]
       /\ lagged' = [c \in Conns |-> lagged[c] \/ (sent /\ rx_alive[c] /\ Len(rxq[c]) >= BroadcastCap)]
       /\ last_broadcast' = Some([message |-> message, count |-> count,
                                  outcome |-> IF count = 0 THEN "none" ELSE IF sent THEN "ok" ELSE "err",
                                  receivers |-> IF sent THEN Receivers ELSE {}])

\* count is the size of the map; with count > 0 the message goes to
\* broadcast_tx.send, which fails when no receiver exists and otherwise stores
\* the message for every receiver; count is returned either way.
Broadcast(message) ==
    LET count == Cardinality(connections)
        sent == count > 0 /\ Receivers /= {}
    IN /\ rxq' = [c \in Conns |-> IF sent /\ rx_alive[c] THEN Retained(rxq[c], message) ELSE rxq[c]]
       /\ lagged' = [c \in Conns |-> lagged[c] \/ (sent /\ rx_alive[c] /\ Len(rxq[c]) >= BroadcastCap)]
       /\ last_broadcast' = Some([message |-> message, count |-> count,
                                  outcome |-> IF count = 0 THEN "none" ELSE IF sent THEN "ok" ELSE "err",
                                  receivers |-> IF sent THEN Receivers ELSE {}])

\* get_selected_pair (a faulty variant answers with the default pair).
get_selected_pair_default == DefaultPair

get_selected_pair == selected_pair

\* set_selected_pair(pair) (a faulty variant keeps the first selection made).
set_selected_pair_once(pair) ==
    selected_pair' = IF selected_pair = DefaultPair THEN pair ELSE selected_pair

set_selected_pair(pair) == selected_pair' = pair

(***************************************************************************)
(* handle_socket and its two tasks (websocket/handler.rs)                  *)
(***************************************************************************)
\* Text frames a client may send: [json, type, pair]; type and pair are the
\* members read with as_str() (None: absent or not a string).
ClientTexts ==
    {[json |-> FALSE, type |-> None, pair |-> None],
     [json |-> TRUE, type |-> None, pair |-> None],
     [json |-> TRUE, type |-> Some("subscribe"), pair |-> None],
     [json |-> TRUE, type |-> Some("select_pair"), pair |-> None]}
    \cup {[json |-> TRUE, type |-> Some("select_pair"), pair |-> Some(p)] : p \in ClientPairs}

\* handle_socket up to its select!: add_connection, then the two tasks are
\* spawned.  Connection ids are fresh (Uuid::new_v4): each is used once.
Connect(c) ==
    /\ conn_pc[c] = "none"
    /\ \A b \in Conns : b < c => conn_pc[b] /= "none"
    /\ connections' = connections \cup {c}
    /\ rx_alive' = [rx_alive EXCEPT ![c] = TRUE]
    /\ conn_pc' = [conn_pc EXCEPT ![c] = "wait"]
    /\ recv_pc' = [recv_pc EXCEPT ![c] = "run"]
    /\ send_pc' = [send_pc EXCEPT ![c] = "run"]
    /\ UNCHANGED <<ping_q, recv_log, selVars, chanVars>>
    /\ UNCHANGED <<queryVars, tradeVars, subVars, taskVars, trade_ch, supVars, tickVars>>

\* The line the Text arm of receive_task logs for a frame (handler.rs:41-61).
HandlerLog(text) ==
    IF ~text.json THEN "Failed to parse message as JSON"
    ELSE IF text.type = None THEN "Received message missing 'type' field"
    ELSE IF text.type /= Some("select_pair") THEN "Received message type"
    ELSE IF text.pair = None THEN "Pair selection message missing 'pair' field"
    ELSE "Pair updated"

\* receive_task, a Text frame: only {"type":"select_pair","pair":<string>} acts
\* (a faulty variant ends the task on a text that is not JSON).
ClientText_strict(c, text) ==
    /\ recv_pc[c] = "run"
    /\ recv_log' = HandlerLog(text)
    /\ IF text.json /\ text.type = Some("select_pair") /\ text.pair /= None
       THEN /\ set_selected_pair(Unwrap(text.pair))
            /\ last_select' = text.pair
       ELSE UNCHANGED selVars
    /\ IF text.json
       THEN UNCHANGED <<connections, recv_pc>>
       ELSE /\ recv_pc' = [recv_pc EXCEPT ![c] = "done"]
            /\ connections' = connections \ {c}
    /\ UNCHANGED <<conn_pc, send_pc, rx_alive, ping_q, chanVars>>
    /\ UNCHANGED <<queryVars, tradeVars, subVars, taskVars, trade_ch, supVars, tickVars>>

ClientText(c, text) ==
    /\ recv_pc[c] = "run"
    /\ recv_log' = HandlerLog(text)
    /\ IF text.json /\ text.type = Some("select_pair") /\ text.pair /= None
       THEN /\ set_selected_pair(Unwrap(text.pair))
            /\ last_select' = text.pair
       ELSE UNCHANGED selVars
    /\ UNCHANGED <<connections, conn_pc, recv_pc, send_pc, rx_alive, ping_q, chanVars>>
    /\ UNCHANGED <<queryVars, tradeVars, subVars, taskVars, trade_ch, supVars, tickVars>>

\* receive_task, a Ping frame: a Pong is queued for the send task (the send on
\* the unbounded channel fails silently once the send task is gone).
ClientPing(c) ==
    /\ recv_pc[c] = "run"
    /\ ping_q[c] < MaxPings
    /\ ping_q' = [ping_q EXCEPT ![c] = IF send_pc[c] = "run" THEN @ + 1 ELSE @]
    /\ UNCHANGED <<connections, conn_pc, recv_pc, send_pc, rx_alive, recv_log, selVars, chanVars>>
    /\ UNCHANGED <<queryVars, tradeVars, subVars, taskVars, trade_ch, supVars, tickVars>>

\* receive_task, a Close frame, a socket error or the end of the stream: the
\* loop ends and the task removes the connection.
ClientGone(c) ==
    /\ recv_pc[c] = "run"
    /\ recv_pc' = [recv_pc EXCEPT ![c] = "done"]
    /\ connections' = connections \ {c}
    /\ UNCHANGED <<conn_pc, send_pc, rx_alive, ping_q, recv_log, selVars, chanVars>>
    /\ UNCHANGED <<queryVars, tradeVars, subVars, taskVars, trade_ch, supVars, tickVars>>

\* The send task ends: its receiver and its end of the ping channel are dropped.
SendTaskEnds(c) ==
    /\ send_pc' = [send_pc EXCEPT ![c] = "done"]
    /\ rx_alive' = [rx_alive EXCEPT ![c] = FALSE]
    /\ ping_q' = [ping_q EXCEPT ![c] = 0]
    /\ rxq' = [rxq EXCEPT ![c] = <<>>]
    /\ lagged' = [lagged EXCEPT ![c] = FALSE]

\* send_task, broadcast_rx.recv() is ready: Err(Lagged) ends the task; Ok(msg)
\* is written to the socket, and a failed write (socket_ok = FALSE) ends it.
\* (A faulty variant goes on after Err(Lagged), from the oldest message the
\* channel still holds.)
SendForward_skip_lag(c, socket_ok) ==
    /\ send_pc[c] = "run"
    /\ lagged[c] \/ rxq[c] /= <<>>
    /\ IF lagged[c]
       THEN /\ lagged' = [lagged EXCEPT ![c] = FALSE]
            /\ UNCHANGED <<send_pc, rx_alive, ping_q, rxq>>
       ELSE IF ~socket_ok
            THEN SendTaskEnds(c)
            ELSE /\ rxq' = [rxq EXCEPT ![c] = Tail(@)]
                 /\ UNCHANGED <<send_pc, rx_alive, ping_q, lagged>>
    /\ UNCHANGED <<connections, conn_pc, recv_pc, recv_log, selVars, last_broadcast>>
    /\ UNCHANGED <<queryVars, tradeVars, subVars, taskVars, trade_ch, supVars, tickVars>>

SendForward(c, socket_ok) ==
    /\ send_pc[c] = "run"
    /\ lagged[c] \/ rxq[c] /= <<>>
    /\ IF lagged[c] \/ ~socket_ok
       THEN SendTaskEnds(c)
       ELSE /\ rxq' = [rxq EXCEPT ![c] = Tail(@)]
            /\ UNCHANGED <<send_pc, rx_alive, ping_q, lagged>>
    /\ UNCHANGED <<connections, conn_pc, recv_pc, recv_log, selVars, last_broadcast>>
    /\ UNCHANGED <<queryVars, tradeVars, subVars, taskVars, trade_ch, supVars, tickVars>>

\* send_task, ping_rx.recv() is ready: the Pong is written to the socket.
SendPong(c, socket_ok) ==
    /\ send_pc[c] = "run"
    /\ ping_q[c] > 0
    /\ IF socket_ok
       THEN /\ ping_q' = [ping_q EXCEPT ![c] = @ - 1]
            /\ UNCHANGED <<send_pc, rx_alive, rxq, lagged>>
       ELSE SendTaskEnds(c)
    /\ UNCHANGED <<connections, conn_pc, recv_pc, recv_log, selVars, last_broadcast>>
    /\ UNCHANGED <<queryVars, tradeVars, subVars, taskVars, trade_ch, supVars, tickVars>>

\* handle_socket after its select!: one of the two tasks has completed; the
\* connection is removed and handle_socket returns (the other task runs on).
\* A faulty variant returns without the final remove_connection.
HandleSocketReturn_no_remove(c) ==
    /\ conn_pc[c] = "wait"
    /\ recv_pc[c] = "done" \/ send_pc[c] = "done"
    /\ conn_pc' = [conn_pc EXCEPT ![c] = "done"]
    /\ UNCHANGED <<connections, recv_pc, send_pc, rx_alive, ping_q, recv_log, selVars, chanVars>>
    /\ UNCHANGED <<queryVars, tradeVars, subVars, taskVars, trade_ch, supVars, tickVars>>

HandleSocketReturn(c) ==
    /\ conn_pc[c] = "wait"
    /\ recv_pc[c] = "done" \/ send_pc[c] = "done"
    /\ connections' = connections \ {c}
    /\ conn_pc' = [conn_pc EXCEPT ![c] = "done"]
    /\ UNCHANGED <<recv_pc, send_pc, rx_alive, ping_q, recv_log, selVars, chanVars>>
    /\ UNCHANGED <<queryVars, tradeVars, subVars, taskVars, trade_ch, supVars, tickVars>>

(***************************************************************************)
(* The price task (trade_stream.rs:87-131)                                 *)
(***************************************************************************)
InitTick ==
    /\ tick_pc = "sleep"
    /\ tick_pair = None
    /\ tick_mints = None
    /\ tick_msg = None

\* price_interval.tick() completes.
TickFire ==
    /\ tick_pc = "sleep"
    /\ tick_pc' = "read"
    /\ UNCHANGED <<tick_pair, tick_mints, tick_msg>>
    /\ UNCHANGED <<queryVars, tradeVars, subVars, taskVars, trade_ch, supVars, connVars, selVars, chanVars>>

\* The selection is read and resolved; a pair that does not resolve ends the tick
\* (a faulty variant goes on with the default pair when it does not resolve).
TickRead_default_pair ==
    /\ tick_pc = "read"
    /\ LET pair == IF pair_to_mints(get_selected_pair) /= None THEN get_selected_pair ELSE DefaultPair
       IN /\ tick_pair' = Some(pair)
          /\ tick_mints' = pair_to_mints(pair)
          /\ tick_pc' = IF pair_to_mints(pair) /= None
                        THEN IF parse_pair(pair) /= None THEN "query" ELSE "sleep"
                        ELSE "sleep"
    /\ UNCHANGED tick_msg
    /\ UNCHANGED <<queryVars, tradeVars, subVars, taskVars, trade_ch, supVars, connVars, selVars, chanVars>>

TickRead ==
    /\ tick_pc = "read"
    /\ tick_pair' = Some(get_selected_pair)
    /\ tick_mints' = pair_to_mints(get_selected_pair)
    /\ tick_pc' = IF pair_to_mints(get_selected_pair) /= None
                  THEN IF parse_pair(get_selected_pair) /= None THEN "query" ELSE "sleep"
                  ELSE "sleep"
    /\ UNCHANGED tick_msg
    /\ UNCHANGED <<queryVars, tradeVars, subVars, taskVars, trade_ch, supVars, connVars, selVars, chanVars>>

\* get_price returns: Ok(price) builds the pseudo-trade, Err ends the tick
\* (a faulty variant broadcasts the built-in fallback price when it fails).
TickOracle_fallback(replies, now) ==
    /\ tick_pc = "query"
    /\ LET mints == Unwrap(tick_mints)
           symbols == Unwrap(parse_pair(Unwrap(tick_pair)))
           result == get_price(mints[1], mints[2], replies)
           price == IF result.ok THEN Unwrap(result.val) ELSE F(FallbackPrice)
       IN /\ tick_msg' = Some(PriceJson(now, symbols[1], symbols[2], price))
          /\ tick_pc' = "broadcast"
    /\ UNCHANGED <<tick_pair, tick_mints>>
    /\ UNCHANGED <<queryVars, tradeVars, subVars, taskVars, trade_ch, supVars, connVars, selVars, chanVars>>

TickOracle(replies, now) ==
    /\ tick_pc = "query"
    /\ LET mints == Unwrap(tick_mints)
           symbols == Unwrap(parse_pair(Unwrap(tick_pair)))
           result == get_price(mints[1], mints[2], replies)
       IN IF result.ok
          THEN /\ tick_msg' = Some(PriceJson(now, symbols[1], symbols[2], Unwrap(result.val)))
               /\ tick_pc' = "broadcast"
          ELSE /\ tick_msg' = None
               /\ tick_pc' = "sleep"
    /\ UNCHANGED <<tick_pair, tick_mints>>
    /\ UNCHANGED <<queryVars, tradeVars, subVars, taskVars, trade_ch, supVars, connVars, selVars, chanVars>>

\* ws_manager_price.broadcast(price_json)
TickBroadcast ==
    /\ tick_pc = "broadcast"
    /\ Broadcast(Unwrap(tick_msg))
    /\ tick_pc' = "sleep"
    /\ tick_msg' = None
    /\ UNCHANGED <<tick_pair, tick_mints>>
    /\ UNCHANGED <<queryVars, tradeVars, subVars, taskVars, trade_ch, supVars, connVars, selVars>>

(***************************************************************************)
(* The main loop (trade_stream.rs:134-170)                                 *)
(***************************************************************************)
InitSup ==
    /\ sup_pc = "recv"
    /\ sup_recv = None
    /\ sup_trade = None
    /\ sup_lookup = None
    /\ current_price = None
    /\ oracle_last = None
    /\ trades_table = <<>>
    /\ last_store = None
    /\ store_calls = 0
    /\ received = 0

\* The row store_trade inserts.
TradeRow(trade) ==
    [id |-> trade.id,
     timestamp |-> trade.timestamp,
     base_symbol |-> trade.base_symbol,
     quote_symbol |-> trade.quote_symbol,
     price |-> trade.price,
     amount |-> trade.amount,
     side |-> trade.side]

\* "Validate price" (a faulty variant tests price < 0.0; another replaces every price).
ValidatePrice_lt(trade, price) ==
    IF (trade.price.k /= "nan" /\ trade.price.n < 0) \/ is_infinite(trade.price) \/ is_nan(trade.price)
    THEN [trade EXCEPT !.price = price]
    ELSE trade

ValidatePrice_always(trade, price) == [trade EXCEPT !.price = price]

ValidatePrice(trade, price) ==
    IF FLeZero(trade.price) \/ is_infinite(trade.price) \/ is_nan(trade.price)
    THEN [trade EXCEPT !.price = price]
    ELSE trade

\* trade_rx.recv() yields a trade.
SupRecv ==
    /\ sup_pc = "recv"
    /\ trade_ch /= <<>>
    /\ sup_recv' = Some(Head(trade_ch))
    /\ sup_trade' = Some(Head(trade_ch))
    /\ trade_ch' = Tail(trade_ch)
    /\ sup_pc' = "oracle"
    /\ store_calls' = 0
    /\ received' = received + 1
    /\ UNCHANGED <<sup_lookup, current_price, oracle_last, trades_table, last_store>>
    /\ UNCHANGED <<queryVars, tradeVars, subVars, taskVars, tickVars, connVars, selVars, chanVars>>

\* get_sol_usdc_price returns; the price is validated.
SupOracle(reply) ==
    /\ sup_pc = "oracle"
    /\ LET result == get_sol_usdc_price([m \in {SOL_MINT} |-> reply])
           price == IF result.ok THEN Unwrap(result.val) ELSE F(FallbackPrice)
       IN /\ sup_lookup' = Some(result)
          /\ current_price' = Some(price)
          /\ oracle_last' = IF result.ok THEN result.val ELSE oracle_last
          /\ sup_trade' = Some(ValidatePrice(Unwrap(sup_trade), price))
    /\ sup_pc' = "store"
    /\ UNCHANGED <<sup_recv, trades_table, last_store, store_calls, received>>
    /\ UNCHANGED <<queryVars, tradeVars, subVars, taskVars, trade_ch, tickVars, connVars, selVars, chanVars>>

\* clickhouse.store_trade(&trade) returns Ok (the row is inserted) or Err; the
\* error is logged and the loop goes on to the broadcast (a faulty variant
\* gives the trade up when the store fails).
SupStore_or_skip(stored) ==
    /\ sup_pc = "store"
    /\ last_store' = Some([trade |-> Unwrap(sup_trade), ok |-> stored])
    /\ store_calls' = store_calls + 1
    /\ trades_table' = IF stored THEN Append(trades_table, TradeRow(Unwrap(sup_trade)))
                       ELSE trades_table
    /\ sup_pc' = IF stored THEN "broadcast" ELSE "recv"
    /\ UNCHANGED <<sup_recv, sup_trade, sup_lookup, current_price, oracle_last, received>>
    /\ UNCHANGED <<queryVars, tradeVars, subVars, taskVars, trade_ch, tickVars, connVars, selVars, chanVars>>

SupStore(stored) ==
    /\ sup_pc = "store"
    /\ last_store' = Some([trade |-> Unwrap(sup_trade), ok |-> stored])
    /\ store_calls' = store_calls + 1
    /\ trades_table' = IF stored THEN Append(trades_table, TradeRow(Unwrap(sup_trade)))
                       ELSE trades_table
    /\ sup_pc' = "broadcast"
    /\ UNCHANGED <<sup_recv, sup_trade, sup_lookup, current_price, oracle_last, received>>
    /\ UNCHANGED <<queryVars, tradeVars, subVars, taskVars, trade_ch, tickVars, connVars, selVars, chanVars>>

\* ws_manager.broadcast(trade_json)
SupBroadcast ==
    /\ sup_pc = "broadcast"
    /\ Broadcast(TradeJson(Unwrap(sup_trade)))
    /\ sup_pc' = "recv"
    /\ UNCHANGED <<sup_recv, sup_trade, sup_lookup, current_price, oracle_last, trades_table, last_store,
                   store_calls, received>>
    /\ UNCHANGED <<queryVars, tradeVars, subVars, taskVars, trade_ch, tickVars, connVars, selVars>>

(***************************************************************************)
(* start_subscription and the reconnect task                               *)
(* (quicknode_ws.rs:142-277, trade_stream.rs:70-82)                        *)
(***************************************************************************)
\* Text frames of the upstream socket, as serde decodes them into
\* JsonRpcNotification: [json, id, result, method, params]; json = FALSE is a
\* text that does not decode.
LogsNotification(signature, slot, err) ==
    [json |-> TRUE, id |-> None, result |-> None, method |-> "logsNotification",
     params |-> Some([signature |-> signature, slot |-> slot, err |-> err])]

UpstreamTexts ==
    {[json |-> FALSE, id |-> None, result |-> None, method |-> "", params |-> None],
     [json |-> TRUE, id |-> Some(1), result |-> Some(TRUE), method |-> "", params |-> None],
     [json |-> TRUE, id |-> None, result |-> None, method |-> "logsNotification", params |-> None],
     [json |-> TRUE, id |-> None, result |-> None, method |-> "slotNotification", params |-> None]}
    \cup {LogsNotification(sig, slot, err) :
            sig \in Sigs, slot \in Slots, err \in {None, Some("InstructionError")}}

\* What read.next() yields: a Text frame, Close, an error, another kind of frame
\* (Binary, Ping, Pong), or the end of the stream.
Frame(ws, text) == [ws |-> ws, text |-> text]
UpstreamFrames ==
    {Frame("Text", Some(t)) : t \in UpstreamTexts}
    \cup {Frame(ws, None) : ws \in {"Close", "Error", "Other", "End"}}

IsLogs(frame) ==
    /\ frame.ws = "Text"
    /\ Unwrap(frame.text).json
    /\ Unwrap(frame.text).method = "logsNotification"
    /\ Unwrap(frame.text).params /= None
LogOf(frame) == Unwrap(Unwrap(frame.text).params)

\* A fetch task: the closure of tokio::spawn (signature_clone, slot_clone), its
\* position ("fetch": in get_transaction, "send": in trade_tx.send) and the
\* trade it has constructed.
FetchTask(signature, slot) ==
    [signature |-> signature, slot |-> slot, pc |-> "fetch", trade |-> None]

InitSub ==
    /\ sub_pc = "connect"
    /\ run_result = "none"
    /\ log_notif = None
    /\ text_parse = "none"
    /\ seen_signatures = {}
    /\ notified = [sig \in Sigs |-> 0]
    /\ spawned = [sig \in Sigs |-> 0]

InitTasks ==
    /\ spawn_total = 0
    /\ tasks = EmptyBag
    /\ injected = 0
    /\ fetch_calls = 0
    /\ fetch_failed = 0
    /\ constructed = 0
    /\ delivered = 0
    /\ trade_ch = <<>>

\* start_subscription up to its read loop: the socket is opened and the
\* subscribe requests are written (connected = FALSE: one of these failed and
\* the call returns the error).
\* (A faulty variant keeps one seen-set across runs.)
SubConnect_keeps_seen(connected) ==
    /\ sub_pc = "connect"
    /\ IF connected
       THEN /\ sub_pc' = "read"
            /\ run_result' = "none"
       ELSE /\ sub_pc' = "sleep"
            /\ run_result' = "err"
    /\ seen_signatures' = seen_signatures
    /\ log_notif' = None
    /\ text_parse' = "none"
    /\ notified' = [sig \in Sigs |-> 0]
    /\ spawned' = [sig \in Sigs |-> 0]
    /\ UNCHANGED <<queryVars, tradeVars, taskVars, trade_ch, supVars, tickVars, connVars, selVars, chanVars>>

SubConnect(connected) ==
    /\ sub_pc = "connect"
    /\ IF connected
       THEN /\ sub_pc' = "read"
            /\ run_result' = "none"
       ELSE /\ sub_pc' = "sleep"
            /\ run_result' = "err"
    /\ seen_signatures' = {}
    /\ log_notif' = None
    /\ text_parse' = "none"
    /\ notified' = [sig \in Sigs |-> 0]
    /\ spawned' = [sig \in Sigs |-> 0]
    /\ UNCHANGED <<queryVars, tradeVars, taskVars, trade_ch, supVars, tickVars, connVars, selVars, chanVars>>

\* The seen-set after a new signature is inserted (a faulty variant never
\* clears it).
Inserted_unbounded(seen, signature) == seen \cup {signature}

Inserted(seen, signature) ==
    IF Cardinality(seen \cup {signature}) > SeenCap THEN {} ELSE seen \cup {signature}

\* The notification is new: whether a fetch task is spawned for it (a faulty variant
\* spawns for failed transactions too).
Dispatches_failed_too(log) == TRUE

Dispatches(log) == log.err = None

\* The dedup test (a faulty variant never finds the signature).
AlreadySeen_never(seen, signature) == FALSE

AlreadySeen(seen, signature) == signature \in seen

\* The frames on which the read loop ends: Close, a read error, the end of
\* the stream (a faulty variant also ends it on a text that does not decode).
EndsRun_on_parse_failure(frame) ==
    \/ frame.ws \in {"Close", "Error", "End"}
    \/ frame.ws = "Text" /\ ~Unwrap(frame.text).json

EndsRun(frame) == frame.ws \in {"Close", "Error", "End"}

\* One turn of the read loop: read.next() yields a frame and the body runs on
\* it.  Close, an error and the end of the stream end the run with Ok(()).
\* (A faulty variant tests err before it inserts the signature.)
SubFrame_check_first(frame) ==
    /\ sub_pc = "read"
    /\ IsLogs(frame) =>
          /\ notified[LogOf(frame).signature] < MaxRepeat
          /\ spawn_total < MaxSpawns
    /\ text_parse' = IF frame.ws /= "Text" THEN text_parse
                     ELSE IF Unwrap(frame.text).json THEN "ok" ELSE "failed"
    /\ IF EndsRun(frame)
       THEN /\ sub_pc' = "sleep"
            /\ run_result' = "ok"
            /\ UNCHANGED <<log_notif, seen_signatures, notified, spawned, taskVars>>
       ELSE /\ UNCHANGED <<sub_pc, run_result>>
            /\ IF IsLogs(frame)
                  /\ ~(Unwrap(frame.text).id /= None /\ Unwrap(frame.text).result /= None
                       /\ Unwrap(frame.text).method = "")
               THEN LET log == LogOf(frame)
                        signature == log.signature
                    IN /\ log_notif' = Some(log)
                       /\ notified' = [notified EXCEPT ![signature] = @ + 1]
                       /\ IF AlreadySeen(seen_signatures, signature)
                          THEN UNCHANGED <<seen_signatures, spawned, taskVars>>
                          ELSE /\ seen_signatures' = IF Dispatches(log)
                                                    THEN Inserted(seen_signatures, signature)
                                                    ELSE seen_signatures
                               /\ IF Dispatches(log)
                                  THEN /\ tasks' = tasks (+) SetToBag({FetchTask(signature, log.slot)})
                                       /\ spawned' = [spawned EXCEPT ![signature] = @ + 1]
                                       /\ spawn_total' = spawn_total + 1
                                       /\ UNCHANGED <<injected, fetchVars>>
                                  ELSE UNCHANGED <<spawned, taskVars>>
               ELSE UNCHANGED <<log_notif, seen_signatures, notified, spawned, taskVars>>
    /\ UNCHANGED <<queryVars, tradeVars, trade_ch, supVars, tickVars, connVars, selVars, chanVars>>

SubFrame(frame) ==
    /\ sub_pc = "read"
    /\ IsLogs(frame) =>
          /\ notified[LogOf(frame).signature] < MaxRepeat
          /\ spawn_total < MaxSpawns
    /\ text_parse' = IF frame.ws /= "Text" THEN text_parse
                     ELSE IF Unwrap(frame.text).json THEN "ok" ELSE "failed"
    /\ IF EndsRun(frame)
       THEN /\ sub_pc' = "sleep"
            /\ run_result' = "ok"
            /\ UNCHANGED <<log_notif, seen_signatures, notified, spawned, taskVars>>
       ELSE /\ UNCHANGED <<sub_pc, run_result>>
            /\ IF IsLogs(frame)
                  /\ ~(Unwrap(frame.text).id /= None /\ Unwrap(frame.text).result /= None
                       /\ Unwrap(frame.text).method = "")
               THEN LET log == LogOf(frame)
                        signature == log.signature
                    IN /\ log_notif' = Some(log)
                       /\ notified' = [notified EXCEPT ![signature] = @ + 1]
                       /\ IF AlreadySeen(seen_signatures, signature)
                          THEN UNCHANGED <<seen_signatures, spawned, taskVars>>
                          ELSE /\ seen_signatures' = Inserted(seen_signatures, signature)
                               /\ IF Dispatches(log)
                                  THEN /\ tasks' = tasks (+) SetToBag({FetchTask(signature, log.slot)})
                                       /\ spawned' = [spawned EXCEPT ![signature] = @ + 1]
                                       /\ spawn_total' = spawn_total + 1
                                       /\ UNCHANGED <<injected, fetchVars>>
                                  ELSE UNCHANGED <<spawned, taskVars>>
               ELSE UNCHANGED <<log_notif, seen_signatures, notified, spawned, taskVars>>
    /\ UNCHANGED <<queryVars, tradeVars, trade_ch, supVars, tickVars, connVars, selVars, chanVars>>

\* The reconnect task's sleep(5s) completes (a faulty variant leaves the loop
\* when the run returned an error).
SubWake_after_ok_only ==
    /\ sub_pc = "sleep"
    /\ run_result = "ok"
    /\ sub_pc' = "connect"
    /\ UNCHANGED <<run_result, log_notif, text_parse, seen_signatures, notified, spawned>>
    /\ UNCHANGED <<queryVars, tradeVars, taskVars, trade_ch, supVars, tickVars, connVars, selVars, chanVars>>

\* (Another faulty variant reconnects on a timer, without waiting for the
\* run in progress to return.)
SubWake_while_running ==
    /\ sub_pc \in {"sleep", "read"}
    /\ sub_pc' = "connect"
    /\ UNCHANGED <<run_result, log_notif, text_parse, seen_signatures, notified, spawned>>
    /\ UNCHANGED <<queryVars, tradeVars, taskVars, trade_ch, supVars, tickVars, connVars, selVars, chanVars>>

SubWake ==
    /\ sub_pc = "sleep"
    /\ sub_pc' = "connect"
    /\ UNCHANGED <<run_result, log_notif, text_parse, seen_signatures, notified, spawned>>
    /\ UNCHANGED <<queryVars, tradeVars, taskVars, trade_ch, supVars, tickVars, connVars, selVars, chanVars>>

(***************************************************************************)
(* The fetch tasks (quicknode_ws.rs:240-260)                               *)
(***************************************************************************)
\* What the task does with get_transaction's result: the trade to send, if any.
Fetched(task, response, iter_order, now) ==
    LET result == get_transaction(response)
    IN IF ~result.ok THEN None
       ELSE IF Unwrap(result.val) = None THEN None
       ELSE LET tx_json == Unwrap(Unwrap(result.val))
            IN IF ~tx_json.decodes THEN None
               ELSE construct_trade(task.signature, task.slot, tx_json.data, iter_order, now)

ResponseOrders(response) ==
    IF get_transaction(response).ok /\ Unwrap(get_transaction(response).val) /= None
       /\ Unwrap(Unwrap(get_transaction(response).val)).decodes
    THEN IterOrders(Unwrap(Unwrap(get_transaction(response).val)).data)
    ELSE {<<>>}

\* get_transaction failed for the task: Err, or Ok(None).
Failed(response) ==
    ~get_transaction(response).ok \/ Unwrap(get_transaction(response).val) = None

\* get_transaction returns in a task; the task ends unless a trade came out
\* (a faulty variant calls again when the call returned Err).
FetchReturn_retry(task, response, now) ==
    /\ BagIn(task, tasks)
    /\ task.pc = "fetch"
    /\ fetch_calls' = fetch_calls + 1
    /\ fetch_failed' = IF Failed(response) THEN fetch_failed + 1 ELSE fetch_failed
    /\ \E iter_order \in ResponseOrders(response) :
          LET trade == Fetched(task, response, iter_order, now)
          IN /\ tasks' = IF ~get_transaction(response).ok THEN tasks
                         ELSE IF trade = None THEN tasks (-) SetToBag({task})
                         ELSE (tasks (-) SetToBag({task}))
                              (+) SetToBag({[task EXCEPT !.pc = "send", !.trade = trade]})
             /\ constructed' = IF trade = None THEN constructed ELSE constructed + 1
    /\ UNCHANGED <<spawn_total, injected, delivered, trade_ch>>
    /\ UNCHANGED <<queryVars, tradeVars, subVars, supVars, tickVars, connVars, selVars, chanVars>>

FetchReturn(task, response, now) ==
    /\ BagIn(task, tasks)
    /\ task.pc = "fetch"
    /\ fetch_calls' = fetch_calls + 1
    /\ fetch_failed' = IF Failed(response) THEN fetch_failed + 1 ELSE fetch_failed
    /\ \E iter_order \in ResponseOrders(response) :
          LET trade == Fetched(task, response, iter_order, now)
          IN /\ tasks' = IF trade = None THEN tasks (-) SetToBag({task})
                         ELSE (tasks (-) SetToBag({task}))
                              (+) SetToBag({[task EXCEPT !.pc = "send", !.trade = trade]})
             /\ constructed' = IF trade = None THEN constructed ELSE constructed + 1
    /\ UNCHANGED <<spawn_total, injected, delivered, trade_ch>>
    /\ UNCHANGED <<queryVars, tradeVars, subVars, supVars, tickVars, connVars, selVars, chanVars>>

\* trade_tx.send(trade) completes: there is room in the channel (a faulty
\* variant uses try_send and gives the trade up when the channel is full).
TaskSend_try(task) ==
    /\ BagIn(task, tasks)
    /\ task.pc = "send"
    /\ IF Len(trade_ch) < TradeChanCap
       THEN /\ trade_ch' = Append(trade_ch, Unwrap(task.trade))
            /\ delivered' = delivered + 1
       ELSE UNCHANGED <<trade_ch, delivered>>
    /\ tasks' = tasks (-) SetToBag({task})
    /\ UNCHANGED <<spawn_total, injected, fetch_calls, fetch_failed, constructed>>
    /\ UNCHANGED <<queryVars, tradeVars, subVars, supVars, tickVars, connVars, selVars, chanVars>>

\* (Another faulty variant ties the task to its run: it sends only while a
\* run is reading.)
TaskSend_while_running(task) ==
    /\ BagIn(task, tasks)
    /\ task.pc = "send"
    /\ sub_pc = "read"
    /\ Len(trade_ch) < TradeChanCap
    /\ trade_ch' = Append(trade_ch, Unwrap(task.trade))
    /\ delivered' = delivered + 1
    /\ tasks' = tasks (-) SetToBag({task})
    /\ UNCHANGED <<spawn_total, injected, fetch_calls, fetch_failed, constructed>>
    /\ UNCHANGED <<queryVars, tradeVars, subVars, supVars, tickVars, connVars, selVars, chanVars>>

TaskSend(task) ==
    /\ BagIn(task, tasks)
    /\ task.pc = "send"
    /\ Len(trade_ch) < TradeChanCap
    /\ trade_ch' = Append(trade_ch, Unwrap(task.trade))
    /\ delivered' = delivered + 1
    /\ tasks' = tasks (-) SetToBag({task})
    /\ UNCHANGED <<spawn_total, injected, fetch_calls, fetch_failed, constructed>>
    /\ UNCHANGED <<queryVars, tradeVars, subVars, supVars, tickVars, connVars, selVars, chanVars>>

(***************************************************************************)
(* A sender of the trade channel other than a fetch task                   *)
(***************************************************************************)
\* The main loop takes whatever Trade arrives on trade_rx.  To exercise it on
\* prices construct_trade does not produce, a sender puts the trade of the
\* worked example on the channel with its price set to any f64 class and its
\* total_value computed from that price as construct_trade computes it
\* (quicknode_ws.rs:423).
InjectedPrices == {NaN, PInf, NInf, F(0), F(-3), F(12), Fin(1, 12)}
InjectedTrades ==
    LET base == Unwrap(construct_trade(Sig(1), CallSlot, ExampleRecord,
                                       CHOOSE o \in IterOrders(ExampleRecord) : TRUE, BlockTime))
    IN {[base EXCEPT !.price = p, !.total_value = FMulInt(p, base.amount)] : p \in InjectedPrices}

Inject(trade) ==
    /\ injected < MaxInject
    /\ Len(trade_ch) < TradeChanCap
    /\ trade_ch' = Append(trade_ch, trade)
    /\ injected' = injected + 1
    /\ UNCHANGED <<spawn_total, tasks, fetchVars>>
    /\ UNCHANGED <<queryVars, tradeVars, subVars, supVars, tickVars, connVars, selVars, chanVars>>

(***************************************************************************)
(* construct_trade taken alone                                             *)
(***************************************************************************)
InitIdle ==
    /\ ohlcv_out = None
    /\ InitSub
    /\ InitTasks
    /\ InitSup
    /\ InitTick
    /\ InitHub

InitTrade ==
    /\ tx_data \in Records
    /\ ct_pc = "call"
    /\ ct_out = None
    /\ InitIdle

\* One call of construct_trade on the record, under some hash-map iteration
\* order and some clock reading.
ConstructTradeCall ==
    /\ ct_pc = "call"
    /\ \E iter_order \in IterOrders(tx_data), now \in Clock :
          ct_out' = construct_trade(CallSignature, CallSlot, tx_data, iter_order, now)
    /\ ct_pc' = "done"
    /\ UNCHANGED tx_data
    /\ UNCHANGED <<queryVars, subVars, taskVars, trade_ch, supVars, tickVars, connVars, selVars, chanVars>>

NextTrade == ConstructTradeCall

SpecTrade == InitTrade /\ [][NextTrade]_vars

(***************************************************************************)
(* The OHLCV query (clickhouse.rs:276-342)                                 *)
(***************************************************************************)
\* get_ohlcv(base_symbol, quote_symbol, interval) over the rows of the trades
\* table.  argMin and argMax keep the first row they meet among rows of equal
\* timestamp, and the order in which the table is scanned is not fixed by the
\* query (scan: a sequence that lists every row index once).  The stored
\* prices are finite.  (A faulty variant takes open from argMax.)
get_ohlcv_open_is_close(rows, base_symbol, quote_symbol, interval, scan) ==
    LET seconds == CASE interval = "1m" -> 60 [] interval = "5m" -> 300
                     [] interval = "15m" -> 900 [] interval = "1h" -> 3600
                     [] interval = "4h" -> 14400 [] interval = "1d" -> 86400
                     [] OTHER -> 60
        matching == {i \in DOMAIN rows : /\ rows[i].base_symbol = base_symbol
                                          /\ rows[i].quote_symbol = quote_symbol}
        time(i) == (rows[i].timestamp \div seconds) * seconds
        times == {time(i) : i \in matching}
        group(t) == {i \in matching : time(i) = t}
        pos(i) == CHOOSE k \in DOMAIN scan : scan[k] = i
        argMax(g) == CHOOSE i \in g : \A j \in g \ {i} :
                        \/ rows[i].timestamp > rows[j].timestamp
                        \/ rows[i].timestamp = rows[j].timestamp /\ pos(i) < pos(j)
        max(g) == CHOOSE x \in {rows[i].price : i \in g} : \A i \in g : FLe(rows[i].price, x)
        min(g) == CHOOSE x \in {rows[i].price : i \in g} : \A i \in g : FLe(x, rows[i].price)
        RECURSIVE sum(_)
        sum(g) == IF g = {} THEN F(0)
                  ELSE LET i == CHOOSE i \in g : TRUE
                       IN FAdd(FMulInt(rows[i].price, rows[i].amount), sum(g \ {i}))
        ordered == CHOOSE seq \in [1..Cardinality(times) -> times] :
                       \A a, b \in DOMAIN seq : a < b => seq[a] < seq[b]
    IN [k \in DOMAIN ordered |->
           [time |-> ordered[k],
            open |-> JsonF64(rows[argMax(group(ordered[k]))].price),
            high |-> JsonF64(max(group(ordered[k]))),
            low |-> JsonF64(min(group(ordered[k]))),
            close |-> JsonF64(rows[argMax(group(ordered[k]))].price),
            volume |-> JsonF64(sum(group(ordered[k])))]]

get_ohlcv(rows, base_symbol, quote_symbol, interval, scan) ==
    LET seconds == CASE interval = "1m" -> 60 [] interval = "5m" -> 300
                     [] interval = "15m" -> 900 [] interval = "1h" -> 3600
                     [] interval = "4h" -> 14400 [] interval = "1d" -> 86400
                     [] OTHER -> 60
        matching == {i \in DOMAIN rows : /\ rows[i].base_symbol = base_symbol
                                          /\ rows[i].quote_symbol = quote_symbol}
        time(i) == (rows[i].timestamp \div seconds) * seconds
        times == {time(i) : i \in matching}
        group(t) == {i \in matching : time(i) = t}
        pos(i) == CHOOSE k \in DOMAIN scan : scan[k] = i
        argMin(g) == CHOOSE i \in g : \A j \in g \ {i} :
                        \/ rows[i].timestamp < rows[j].timestamp
                        \/ rows[i].timestamp = rows[j].timestamp /\ pos(i) < pos(j)
        argMax(g) == CHOOSE i \in g : \A j \in g \ {i} :
                        \/ rows[i].timestamp > rows[j].timestamp
                        \/ rows[i].timestamp = rows[j].timestamp /\ pos(i) < pos(j)
        max(g) == CHOOSE x \in {rows[i].price : i \in g} : \A i \in g : FLe(rows[i].price, x)
        min(g) == CHOOSE x \in {rows[i].price : i \in g} : \A i \in g : FLe(x, rows[i].price)
        RECURSIVE sum(_)
        sum(g) == IF g = {} THEN F(0)
                  ELSE LET i == CHOOSE i \in g : TRUE
                       IN FAdd(FMulInt(rows[i].price, rows[i].amount), sum(g \ {i}))
        ordered == CHOOSE seq \in [1..Cardinality(times) -> times] :
                       \A a, b \in DOMAIN seq : a < b => seq[a] < seq[b]
    IN [k \in DOMAIN ordered |->
           [time |-> ordered[k],
            open |-> JsonF64(rows[argMin(group(ordered[k]))].price),
            high |-> JsonF64(max(group(ordered[k]))),
            low |-> JsonF64(min(group(ordered[k]))),
            close |-> JsonF64(rows[argMax(group(ordered[k]))].price),
            volume |-> JsonF64(sum(group(ordered[k])))]]

\* The rows the table is filled with: two pairs, three 1-minute buckets, two
\* rows of one second, prices that rise and fall inside a bucket.
OhlcvRow(i, timestamp, base_symbol, price, amount) ==
    [id |-> Sig(i), timestamp |-> timestamp, base_symbol |-> base_symbol, quote_symbol |-> <<"USDC">>,
     price |-> price, amount |-> amount, side |-> "buy"]

OhlcvRows ==
    {OhlcvRow(1, 0, <<"SOL">>, F(2), 1), OhlcvRow(2, 0, <<"SOL">>, F(3), 2),
     OhlcvRow(3, 59, <<"SOL">>, Fin(1, 2), 1), OhlcvRow(4, 60, <<"SOL">>, F(3), 1),
     OhlcvRow(5, 120, <<"SOL">>, F(5), 1), OhlcvRow(6, 61, <<"JUP">>, F(1), 1)}

MaxRows == 3

\* The table holds some rows; no query has been made.
InitOhlcv ==
    /\ tx_data = TxData(None, None)
    /\ ct_pc = "idle"
    /\ ct_out = None
    /\ ohlcv_out = None
    /\ InitSub
    /\ InitTasks
    /\ InitTick
    /\ InitHub
    /\ sup_pc = "recv"
    /\ sup_recv = None
    /\ sup_trade = None
    /\ sup_lookup = None
    /\ current_price = None
    /\ oracle_last = None
    /\ trades_table \in SeqsUpTo(OhlcvRows, MaxRows)
    /\ last_store = None
    /\ store_calls = 0
    /\ received = 0

\* One GET /ohlcv request answered from the table.
GetOhlcv(base_symbol, quote_symbol, interval) ==
    /\ \E scan \in Perms(DOMAIN trades_table) :
          ohlcv_out' = Some([base_symbol |-> base_symbol, quote_symbol |-> quote_symbol,
                             interval |-> interval,
                             rows |-> get_ohlcv(trades_table, base_symbol, quote_symbol, interval, scan)])
    /\ UNCHANGED <<tradeVars, subVars, taskVars, trade_ch, supVars, tickVars, connVars, selVars, chanVars>>

NextOhlcv == \E base_symbol \in {<<"SOL">>, <<"JUP">>}, interval \in {"1m", "5m"} :
                GetOhlcv(base_symbol, <<"USDC">>, interval)

SpecOhlcv == InitOhlcv /\ [][NextOhlcv]_vars

(***************************************************************************)
(* The running system                                                      *)
(***************************************************************************)
\* TradeStreamService::start: the channel is empty, the three loops are at
\* their first await, no client is connected.
Init ==
    /\ tx_data = TxData(None, None)
    /\ ct_pc = "idle"
    /\ ct_out = None
    /\ InitIdle

\* The mints the price task is asking the oracle about.
TickMints == IF tick_mints = None THEN {} ELSE {Unwrap(tick_mints)[1], Unwrap(tick_mints)[2]}

NextSub ==
    \/ \E connected \in BOOLEAN : SubConnect(connected)
    \/ \E frame \in UpstreamFrames : SubFrame(frame)
    \/ SubWake

\* The subscription with a feed of one signature, spawning at most MaxFetches tasks.
FeedFrames ==
    {Frame("Close", None)}
    \cup {Frame("Text", Some(LogsNotification(Sig(1), slot, err))) :
            slot \in Slots, err \in {None, Some("InstructionError")}}

NextFeed ==
    \/ \E connected \in BOOLEAN : SubConnect(connected)
    \/ \E frame \in FeedFrames : spawn_total < MaxFetches /\ SubFrame(frame)
    \/ SubWake

NextTasks ==
    \/ \E task \in BagToSet(tasks), response \in Responses, now \in Clock :
          FetchReturn(task, response, now)
    \/ \E task \in BagToSet(tasks) : TaskSend(task)

NextSup ==
    \/ SupRecv
    \/ \E reply \in Replies : SupOracle(reply)
    \/ \E stored \in BOOLEAN : SupStore(stored)
    \/ SupBroadcast

\* The time of a tick only stamps the message: where the ticks run beside
\* the ingest path or the clients' frames they are taken at one clock value.
TickTime == CHOOSE now \in Clock : \A other \in Clock : now <= other

NextTick ==
    \/ TickFire
    \/ TickRead
    \/ \E replies \in [TickMints -> Replies] : TickOracle(replies, TickTime)
    \/ TickBroadcast

NextHubTick ==
    \/ TickFire
    \/ TickRead
    \/ \E replies \in [TickMints -> HubReplies], now \in Clock : TickOracle(replies, now)
    \/ TickBroadcast

\* The ingest pipeline: subscription, fetch tasks, main loop and price task.
Next == NextFeed \/ NextTasks \/ NextSup \/ NextTick

Spec == Init /\ [][Next]_vars

\* The subscription and its reconnect loop on the whole feed.
SpecSub == Init /\ [][NextSub]_vars

\* The reconnect loop on a feed of notifications of two signatures and of the
\* three ways a run's read loop ends.
RetryFrames ==
    {Frame(ws, None) : ws \in {"Close", "Error", "End"}}
    \cup {Frame("Text", Some(LogsNotification(sig, slot, err))) :
            sig \in {Sig(1), Sig(2)}, slot \in Slots, err \in {None, Some("InstructionError")}}

NextRetry ==
    \/ \E connected \in BOOLEAN : SubConnect(connected)
    \/ \E frame \in RetryFrames : SubFrame(frame)
    \/ SubWake

\* The reconnect task is a spawned tokio task: the runtime keeps polling it,
\* so its sleep completes and the connect attempt it then starts returns
\* (connected or with an error).  Nothing is assumed of the upstream feed: a
\* run may go on reading forever.
SpecSubLive ==
    /\ Init
    /\ [][NextRetry]_vars
    /\ WF_vars(SubWake)
    /\ WF_vars(\E connected \in BOOLEAN : SubConnect(connected))

\* The main loop on trades of every price class.
NextSupervisor == (\E trade \in InjectedTrades : Inject(trade)) \/ NextSup

SpecSup == Init /\ [][NextSupervisor]_vars

\* The ingest path of one run: notifications of two signatures, their fetch
\* tasks, the trade channel and the main loop.
IngestFrames ==
    {Frame("Text", Some(LogsNotification(sig, slot, None))) : sig \in {Sig(1), Sig(2)}, slot \in Slots}

NextIngestSup ==
    \/ SupRecv
    \/ \E reply \in HubReplies : SupOracle(reply)
    \/ \E stored \in BOOLEAN : SupStore(stored)
    \/ SupBroadcast

NextIngest ==
    \/ SubConnect(TRUE)
    \/ \E frame \in IngestFrames : SubFrame(frame)
    \/ NextTasks
    \/ NextIngestSup

\* The main loop is the body of TradeStreamService::start and keeps running:
\* recv() returns when a trade is in the channel, and the lookup, the store
\* and the broadcast each return.  A send on the tokio mpsc channel completes
\* once a slot is free (waiting senders are served in order).  Nothing is
\* assumed of the feed or of when get_transaction returns.
SpecIngest ==
    /\ Init
    /\ [][NextIngest]_vars
    /\ WF_vars(NextIngestSup)
    /\ WF_vars(\E task \in BagToSet(tasks) : TaskSend(task))

\* The ingest path when get_transaction answers late: the feed notifies one
\* signature and closes, and a fetch task gets its answer only while no run
\* is in its read loop (the run that spawned it has returned).  Fairness as
\* in SpecIngest.
LateFrames ==
    {Frame("Close", None)}
    \cup {Frame("Text", Some(LogsNotification(Sig(1), slot, None))) : slot \in Slots}

NextLate ==
    \/ SubConnect(TRUE)
    \/ \E frame \in LateFrames : SubFrame(frame)
    \/ SubWake
    \/ /\ sub_pc /= "read"
       /\ \E task \in BagToSet(tasks), response \in Responses : FetchReturn(task, response, TickTime)
    \/ \E task \in BagToSet(tasks) : TaskSend(task)
    \/ NextIngestSup

SpecLate ==
    /\ Init
    /\ [][NextLate]_vars
    /\ WF_vars(NextIngestSup)
    /\ WF_vars(\E task \in BagToSet(tasks) : TaskSend(task))

\* The ingest path on a feed that makes the seen-set overflow: successful
\* notifications of one signature and failed ones of two others (a failed
\* notification's signature is inserted before it is skipped).
RedeliveryFrames ==
    {Frame("Text", Some(LogsNotification(Sig(1), slot, None))) : slot \in Slots}
    \cup {Frame("Text", Some(LogsNotification(sig, slot, Some("InstructionError")))) :
            sig \in {Sig(2), Sig(3)}, slot \in Slots}

NextRedelivery ==
    \/ SubConnect(TRUE)
    \/ \E frame \in RedeliveryFrames : SubFrame(frame)
    \/ NextTasks
    \/ NextIngestSup

SpecRedelivery == Init /\ [][NextRedelivery]_vars

\* The connections with their two tasks, published to by the price task.
NextHub ==
    \/ \E c \in Conns : Connect(c)
    \/ \E c \in Conns : ClientPing(c)
    \/ \E c \in Conns : ClientGone(c)
    \/ \E c \in Conns, socket_ok \in BOOLEAN : SendForward(c, socket_ok)
    \/ \E c \in Conns, socket_ok \in BOOLEAN : SendPong(c, socket_ok)
    \/ \E c \in Conns : HandleSocketReturn(c)
    \/ NextHubTick

SpecHub == Init /\ [][NextHub]_vars

\* handle_socket is an async fn the server polls: once one of the two task
\* handles in its select! is complete the select! returns and the final
\* remove_connection runs (the write lock is held by others for a map
\* operation only).  Nothing is assumed of the clients or of the sockets.
NextHubLive ==
    \/ \E c \in Conns : Connect(c)
    \/ \E c \in Conns : ClientPing(c)
    \/ \E c \in Conns : ClientGone(c)
    \/ \E c \in Conns, socket_ok \in BOOLEAN : SendForward(c, socket_ok)
    \/ \E c \in Conns, socket_ok \in BOOLEAN : SendPong(c, socket_ok)
    \/ \E c \in Conns : HandleSocketReturn(c)
    \/ TickFire
    \/ TickRead
    \/ \E replies \in [TickMints -> HubReplies] : TickOracle(replies, TickTime)
    \/ TickBroadcast

SpecHubLive ==
    /\ Init
    /\ [][NextHubLive]_vars
    /\ \A c \in Conns : WF_vars(HandleSocketReturn(c))

\* The connections with every task of the server scheduled: the two spawned
\* tasks of a connection and the price task are tokio tasks the runtime polls
\* whenever they are ready (a broadcast message or a Pong is waiting, the
\* interval has elapsed, the oracle has answered), and handle_socket is polled
\* as in SpecHubLive.  Every client is also taken to close its socket in the
\* end, so that a task that stays is not kept by its client.  Nothing is
\* assumed of new clients arriving.
SpecHubFair ==
    /\ Init
    /\ [][NextHubLive]_vars
    /\ \A c \in Conns : WF_vars(HandleSocketReturn(c))
    /\ \A c \in Conns : WF_vars(ClientGone(c))
    /\ \A c \in Conns : WF_vars(\E socket_ok \in BOOLEAN : SendForward(c, socket_ok))
    /\ \A c \in Conns : WF_vars(\E socket_ok \in BOOLEAN : SendPong(c, socket_ok))
    /\ WF_vars(TickFire)
    /\ WF_vars(TickRead)
    /\ WF_vars(\E replies \in [TickMints -> HubReplies] : TickOracle(replies, TickTime))
    /\ WF_vars(TickBroadcast)

\* The clients' frames and the price task.
NextSelect ==
    \/ \E c \in Conns : Connect(c)
    \/ \E c \in Conns, text \in ClientTexts : ClientText(c, text)
    \/ \E c \in Conns : ClientGone(c)
    \/ TickFire
    \/ TickRead
    \/ \E replies \in [TickMints -> HubReplies] : TickOracle(replies, TickTime)
    \/ TickBroadcast

SpecSelect == Init /\ [][NextSelect]_vars

\* The connections when a send task ends before its receive task: select_pair
\* frames, the send tasks (socket writes that fail, receivers that lag), the
\* return of handle_socket, and the price task as publisher.
NextDetached ==
    \/ \E c \in Conns : Connect(c)
    \/ \E c \in Conns, pair \in {DefaultPair, <<"JUP", "/", "USDC">>} :
          ClientText(c, [json |-> TRUE, type |-> Some("select_pair"), pair |-> Some(pair)])
    \/ \E c \in Conns : ClientGone(c)
    \/ \E c \in Conns, socket_ok \in BOOLEAN : SendForward(c, socket_ok)
    \/ \E c \in Conns : HandleSocketReturn(c)
    \/ TickFire
    \/ TickRead
    \/ \E replies \in [TickMints -> HubReplies] : TickOracle(replies, TickTime)
    \/ TickBroadcast

SpecDetached == Init /\ [][NextDetached]_vars

(***************************************************************************)
(* Properties of construct_trade                                           *)
(***************************************************************************)
\* What the design says of a record, stated apart from the code: the allow-list,
\* each mint's aggregated pre and post balance, and the rankings by |delta|.
AllowList == {SOL_MINT, USDC_MINT, USDT_MINT, BONK_MINT, JUP_MINT, WIF_MINT, RAY_MINT}

RECURSIVE TotalOf(_, _)
TotalOf(balances, mint) ==
    IF balances = <<>> THEN 0
    ELSE TotalOf(Tail(balances), mint)
         + (IF Head(balances).mint = mint /\ Head(balances).ui /= None
            THEN Head(balances).ui[1] ELSE 0)

PreOf(record, mint) ==
    IF record.meta = None \/ record.meta[1].pre_token_balances = None THEN 0
    ELSE TotalOf(record.meta[1].pre_token_balances[1], mint)
PostOf(record, mint) ==
    IF record.meta = None \/ record.meta[1].post_token_balances = None THEN 0
    ELSE TotalOf(record.meta[1].post_token_balances[1], mint)
DeltaOf(record, mint) == Abs(PostOf(record, mint) - PreOf(record, mint))

KnownMints == AllowList \cup {OTHER_MINT}
ChangedMints(record) == {m \in KnownMints : DeltaOf(record, m) > 0}

\* <<b, q>> is a choice of "the two mints with the largest delta": b is ranked
\* first, q second (several choices exist when deltas tie).
TopTwo(record) ==
    {p \in ChangedMints(record) \X ChangedMints(record) :
        /\ p[1] /= p[2]
        /\ DeltaOf(record, p[1]) >= DeltaOf(record, p[2])
        /\ \A m \in ChangedMints(record) \ {p[1], p[2]} :
              DeltaOf(record, m) <= DeltaOf(record, p[2])}

\* C3: construct_trade returns nothing for every record whose two
\* largest-delta mints are not both in the allow-list (under ties: for no
\* choice of the two largest are both in it).
C3_AllowListFilter ==
    (ct_pc = "done"
     /\ \A p \in TopTwo(tx_data) : ~(p[1] \in AllowList /\ p[2] \in AllowList))
    => ct_out = None

\* A record with two largest-delta mints, one of them outside the allow-list and
\* the other in it, was rejected.
C3_Witness ==
    /\ ct_pc = "done"
    /\ ct_out = None
    /\ TopTwo(tx_data) /= {}
    /\ \A p \in TopTwo(tx_data) : {p[1], p[2]} \cap AllowList /= {} /\ ~({p[1], p[2]} \subseteq AllowList)

\* The record's aggregated balances are mintA: 10 -> 15, mintB: 100 -> 40, both
\* mints allow-listed, and no other mint changes.
IsExample(record, mintA, mintB) ==
    /\ mintA \in AllowList /\ mintB \in AllowList /\ mintA /= mintB
    /\ PreOf(record, mintA) = 10 /\ PostOf(record, mintA) = 15
    /\ PreOf(record, mintB) = 100 /\ PostOf(record, mintB) = 40
    /\ ChangedMints(record) = {mintA, mintB}

\* C4 as stated: for balances mintA: 10 -> 15, mintB: 100 -> 40 construct_trade
\* yields base = mintA, amount = 5, quote = mintB, price = 12, side = "buy" (the
\* quote amount 60 is then the trade's total value).
C4_AsStated ==
    \A mintA, mintB \in AllowList :
        (ct_pc = "done" /\ IsExample(tx_data, mintA, mintB))
        => /\ ct_out /= None
           /\ ct_out[1].base_mint = mintA
           /\ ct_out[1].quote_mint = mintB
           /\ ct_out[1].amount = 5
           /\ ct_out[1].price = [k |-> "fin", n |-> 12, d |-> 1]
           /\ ct_out[1].total_value = [k |-> "fin", n |-> 60, d |-> 1]
           /\ ct_out[1].side = "buy"

\* C4, amended: mintB has the larger delta (60 against 5), so it is ranked first:
\* construct_trade yields base = mintB, amount = 60, quote = mintA (quote amount
\* 5, the trade's total value), price = 5/60 = 1/12 and side = "sell".
C4_WorkedExample ==
    \A mintA, mintB \in AllowList :
        (ct_pc = "done" /\ IsExample(tx_data, mintA, mintB))
        => /\ ct_out /= None
           /\ ct_out[1].base_mint = mintB
           /\ ct_out[1].quote_mint = mintA
           /\ ct_out[1].amount = 60
           /\ ct_out[1].price = [k |-> "fin", n |-> 1, d |-> 12]
           /\ ct_out[1].total_value = [k |-> "fin", n |-> 5, d |-> 1]
           /\ ct_out[1].side = "sell"

\* construct_trade has returned for the worked example with its balances spread
\* over several accounts.
C4_Witness ==
    /\ ct_pc = "done"
    /\ IsExample(tx_data, JUP_MINT, USDT_MINT)
    /\ Len(tx_data.meta[1].pre_token_balances[1]) > 2
    /\ ct_out /= None

(***************************************************************************)
(* Properties of the subscription                                          *)
(***************************************************************************)
\* The signatures notified in the current run.  Each is inserted into the
\* seen-set when first notified, so the set has been cleared in this run exactly
\* when more than SeenCap of them have been notified.
Distinct == {sig \in Sigs : notified[sig] > 0}

\* C1: within one run, as long as the notifications hold no more distinct
\* signatures than the seen-set keeps (so it has not been cleared), at most one
\* fetch task has been spawned for any signature, however often it was notified.
C1_AtMostOneFetch ==
    Cardinality(Distinct) <= SeenCap => \A sig \in Sigs : spawned[sig] <= 1

\* A run with as many distinct signatures as the set keeps, one of them
\* notified MaxRepeat (>= 2) times and fetched once.
C1_Witness ==
    /\ sub_pc = "read"
    /\ Cardinality(Distinct) = SeenCap
    /\ \E sig \in Sigs : notified[sig] = MaxRepeat /\ MaxRepeat >= 2 /\ spawned[sig] = 1

\* C2: a turn of the read loop that handles a log notification whose err is
\* present spawns no fetch task, whatever the seen-set holds.
C2_FailedNeverFetched ==
    [][(sub_pc = "read" /\ notified' /= notified /\ Unwrap(log_notif').err /= None)
          => (tasks' = tasks /\ spawned' = spawned /\ spawn_total' = spawn_total)]_vars

\* A failed notification of a signature not seen before has been handled: the
\* signature is in the seen-set and nothing was spawned for it.
C2_Witness ==
    /\ log_notif /= None
    /\ Unwrap(log_notif).err /= None
    /\ notified[Unwrap(log_notif).signature] = 1
    /\ Unwrap(log_notif).signature \in seen_signatures
    /\ spawned[Unwrap(log_notif).signature] = 0
    /\ BagCardinality(tasks) = spawn_total

(***************************************************************************)
(* Properties of the connections and the broadcast channel                 *)
(***************************************************************************)
\* The step is the price task's call of broadcast.
BroadcastStep == tick_pc = "broadcast" /\ tick_pc' = "sleep"

\* The message is the newest one the channel holds for the receiver of c.
NewestFor(c, message, queues) ==
    queues[c] /= <<>> /\ queues[c][Len(queues[c])] = message

\* C5 as stated: broadcast(m) puts m on the receive handle of every registered
\* connection that is not behind by more than the capacity.
C5_AsStated ==
    [][BroadcastStep =>
          \A c \in connections :
              ~(lagged[c] \/ Len(rxq[c]) >= BroadcastCap) => NewestFor(c, Unwrap(tick_msg), rxq')]_vars

\* C5: broadcast(m) called with N >= 1 registered connections puts m on the
\* receive handle of each of them whose send task is still running (it holds
\* the handle); a registered connection whose send task has ended gets nothing.
C5_RunningSendTasksGetMessage ==
    [][BroadcastStep =>
          \A c \in connections :
              /\ send_pc[c] = "run" => NewestFor(c, Unwrap(tick_msg), rxq')
              /\ send_pc[c] /= "run" => rxq'[c] = <<>>]_vars

\* A broadcast has been made with every connection registered and served.
C5_Witness ==
    /\ last_broadcast /= None
    /\ connections = Conns
    /\ Unwrap(last_broadcast).count = Cardinality(Conns)
    /\ \A c \in Conns : send_pc[c] = "run" /\ NewestFor(c, Unwrap(last_broadcast).message, rxq)

\* C6: a call of broadcast can always complete: whatever the consumers have or
\* have not read, and whichever connections were added or removed, the call
\* that is pending is enabled.
C6_BroadcastNeverBlocks == tick_pc = "broadcast" => ENABLED TickBroadcast

\* broadcast is pending while a registered consumer has a full buffer and has
\* already missed messages, and another connection has been removed.
C6_Witness ==
    /\ tick_pc = "broadcast"
    /\ \E c \in connections : lagged[c] /\ Len(rxq[c]) = BroadcastCap
    /\ \E c \in Conns : conn_pc[c] /= "none" /\ c \notin connections

\* C7: once select_pair "JUP/USDC" has been handled and no other select_pair
\* after it, the price task's next read of the selection yields "JUP/USDC" and
\* it goes on to ask the oracle for the JUP and USDC mints.
C7_NextTickQueriesSelection ==
    [][(tick_pc = "read" /\ tick_pc' /= "read" /\ last_select = Some(<<"JUP", "/", "USDC">>))
          => /\ tick_pair' = Some(<<"JUP", "/", "USDC">>)
             /\ tick_mints' = Some(<<JUP_MINT, USDC_MINT>>)
             /\ tick_pc' = "query"]_vars

\* The price task is asking the oracle about JUP/USDC after having asked about
\* another pair.
C7_Witness ==
    /\ tick_pc = "query"
    /\ last_select = Some(<<"JUP", "/", "USDC">>)
    /\ tick_mints = Some(<<JUP_MINT, USDC_MINT>>)
    /\ last_broadcast /= None
    /\ Unwrap(last_broadcast).message.base_symbol /= <<"JUP">>

(***************************************************************************)
(* Properties of the main loop                                             *)
(***************************************************************************)
\* The price fails the loop's validation.
Invalid(price) == is_nan(price) \/ is_infinite(price) \/ FLeZero(price)

\* store_trade has been called for the trade in hand; broadcast has been too.
Stored == sup_recv /= None /\ sup_pc \in {"broadcast", "recv"}
Published == sup_recv /= None /\ sup_pc = "recv"

\* The trade in hand goes to store_trade and to broadcast as the given trade.
PassedOnAs(trade) ==
    /\ Stored => Unwrap(last_store).trade = trade
    /\ Stored /\ Unwrap(last_store).ok => trades_table[Len(trades_table)] = TradeRow(trade)
    /\ Published => Unwrap(last_broadcast).message = TradeJson(trade)

\* C8 as stated: the price of such a trade is replaced by the last price the
\* oracle is known to have answered with.
C8_AsStated ==
    (sup_recv /= None /\ Invalid(Unwrap(sup_recv).price) /\ oracle_last /= None)
       => PassedOnAs([Unwrap(sup_recv) EXCEPT !.price = Unwrap(oracle_last)])

\* C8: a trade whose price is NaN, infinite or <= 0 goes to store_trade and to
\* broadcast with its price replaced by the SOL/USDC price the oracle returned
\* to the lookup made for this trade, or by 150.0 when that lookup failed.
C8_InvalidPriceReplaced ==
    (sup_recv /= None /\ Invalid(Unwrap(sup_recv).price) /\ sup_pc /= "oracle")
       => PassedOnAs([Unwrap(sup_recv) EXCEPT !.price =
                         IF Unwrap(sup_lookup).ok THEN Unwrap(Unwrap(sup_lookup).val)
                         ELSE F(FallbackPrice)])

\* A NaN-priced trade has been stored and broadcast at the oracle's price.
C8_Witness ==
    /\ Published
    /\ is_nan(Unwrap(sup_recv).price)
    /\ Unwrap(sup_lookup).ok
    /\ Unwrap(last_store).ok
    /\ Unwrap(last_broadcast).message.price = F(140)

\* C9: a trade with a positive finite price goes to store_trade and to
\* broadcast with every field as received, whatever the oracle lookup gave.
C9_ValidPriceUnchanged ==
    (sup_recv /= None /\ ~Invalid(Unwrap(sup_recv).price) /\ sup_pc /= "oracle")
       => /\ sup_trade = sup_recv
          /\ PassedOnAs(Unwrap(sup_recv))

\* A trade priced 12 has been stored and broadcast while the oracle said 140.
C9_Witness ==
    /\ Published
    /\ Unwrap(sup_recv).price = F(12)
    /\ current_price = Some(F(140))
    /\ Unwrap(last_store).ok
    /\ Unwrap(last_broadcast).message.price = F(12)

\* A JSON number that is >= 0 (null is none).
JsonGeZero(x) == x.k = "fin" /\ x.n >= 0

C11_AsStated ==
    Stored =>
        LET trade == Unwrap(last_store).trade
        IN /\ trade.total_value = FMulInt(trade.price, trade.amount)
           /\ Published =>
                 Unwrap(last_broadcast).message.total_value
                     = JsonF64(FMulInt(trade.price, trade.amount))

\* C12: whenever a subscription run has terminated (start_subscription
\* returned Ok or an error) the reconnect loop, after its backoff, calls
\* start_subscription again, and that call makes its connect attempt; this
\* holds after every run, so the loop never gives up.
C12_TerminatedRunIsRetried ==
    /\ (sub_pc = "sleep" /\ run_result \in {"ok", "err"}) ~> (sub_pc = "connect")
    /\ (sub_pc = "connect") ~> (sub_pc \in {"read", "sleep"})

\* A run that dispatched a fetch has ended and a later run is reading.
C12_Witness ==
    /\ sub_pc = "read"
    /\ spawn_total > 0
    /\ \A sig \in Sigs : notified[sig] = 0

\* C13: a connection whose consumer has fallen more than the channel capacity
\* behind loses the oldest messages only; its send task keeps running (the
\* connection stays registered and receives what is broadcast afterwards).
\* With no pong pending, the one step that can end a running send task is
\* its turn on broadcast_rx.recv().
C13_AsStated ==
    [][\A c \in Conns :
          (lagged[c] /\ send_pc[c] = "run" /\ ping_q[c] = 0)
              => (send_pc'[c] = "run" /\ rx_alive'[c])]_vars

\* C14: the value broadcast(m) returns is the number of live receive handles
\* m was published to.
C14_AsStated ==
    last_broadcast /= None =>
        Unwrap(last_broadcast).count = Cardinality(Unwrap(last_broadcast).receivers)

\* The argument of the most recently completed set_selected_pair, "SOL/USDC"
\* before the first.
LatestSelection == IF last_select = None THEN DefaultPair ELSE Unwrap(last_select)

\* C15: get_selected_pair returns "SOL/USDC" until the first
\* set_selected_pair and afterwards the argument of the most recently
\* completed one, whichever connection made it; every read of the price task
\* yields that value.
C15_LastWriterWins ==
    /\ [](get_selected_pair = LatestSelection)
    /\ [][(tick_pc = "read" /\ tick_pc' /= "read") => tick_pair' = Some(LatestSelection)]_vars

\* Both connections are open, the price task has read one client selection and
\* the cell now holds a later, different one.
C15_Witness ==
    /\ \A c \in Conns : recv_pc[c] = "run"
    /\ last_select /= None
    /\ tick_pair /= None
    /\ Unwrap(tick_pair) \notin {DefaultPair, Unwrap(last_select)}
    /\ get_selected_pair = Unwrap(last_select)

\* The lines logged for the text frames that are not a select_pair command
\* with a string pair.
IgnoredLogs ==
    {HandlerLog(text) : text \in {t \in ClientTexts :
                                     ~(t.json /\ t.type = Some("select_pair") /\ t.pair /= None)}}

\* C16: a client text frame that is not a select_pair command with a string
\* pair (invalid JSON, no type, another type, select_pair without pair)
\* leaves the selection and the registry as they are, and the connections,
\* their tasks, receive handles and buffered broadcasts too: the step changes
\* nothing but the log.
C16_IgnoredFrameChangesNothing ==
    [][(recv_log' /= recv_log /\ recv_log' \in IgnoredLogs)
          => UNCHANGED <<selVars, connections, conn_pc, recv_pc, send_pc, rx_alive, ping_q,
                         chanVars, tickVars>>]_vars

\* A connection that has selected a pair sent a frame that is not valid JSON;
\* it is still registered and a broadcast made since is in its buffer.
C16_Witness ==
    /\ recv_log = "Failed to parse message as JSON"
    /\ last_select /= None
    /\ \E c \in connections :
          /\ recv_pc[c] = "run"
          /\ rxq[c] /= <<>>
          /\ rxq[c][Len(rxq[c])].base_symbol = Unwrap(parse_pair(Unwrap(last_select)))[1]

\* C17: for the trade the main loop has taken from the channel, store_trade
\* is called once, before the broadcast of that trade, with the trade the
\* broadcast then carries; the broadcast is made whether the store succeeded
\* or failed, and the loop is then back at recv() for the next trade.
C17_StoreOnceThenBroadcast ==
    sup_recv /= None =>
        /\ sup_pc \in {"oracle", "store"} => store_calls = 0
        /\ sup_pc = "broadcast" =>
              /\ store_calls = 1
              /\ Unwrap(last_store).trade = Unwrap(sup_trade)
        /\ sup_pc = "recv" =>
              /\ store_calls = 1
              /\ last_broadcast /= None
              /\ Unwrap(last_broadcast).message = TradeJson(Unwrap(last_store).trade)
              /\ Unwrap(last_store).trade.id = Unwrap(sup_recv).id

\* Two trades were taken from the channel: the store of one of them failed
\* (one row only) and the second, stored, has been broadcast.
C17_Witness ==
    /\ injected = 2
    /\ trade_ch = <<>>
    /\ sup_pc = "recv"
    /\ Len(trades_table) = 1
    /\ Unwrap(last_store).ok
    /\ Unwrap(last_broadcast).message = TradeJson(Unwrap(last_store).trade)

\* The number of live fetch tasks at a place.
TasksAt(pc) ==
    BagCardinality([task \in {t \in BagToSet(tasks) : t.pc = pc} |-> CopiesIn(task, tasks)])

\* C18: every dispatched fetch task makes at most one get_transaction call
\* (the calls made and the tasks yet to call add up to the tasks spawned); a
\* call that returns a rate-limit or null/missing result (Ok(None)) or an
\* error constructs no trade, and the step in which it returns removes that
\* one task and leaves the other tasks, the trade channel and the read loop
\* as they were.
C18_OneCallNoRetry ==
    /\ [](fetch_calls + TasksAt("fetch") = spawn_total)
    /\ [](constructed + fetch_failed <= fetch_calls)
    /\ [][fetch_failed' = fetch_failed + 1
            => /\ \E task \in BagToSet(tasks) :
                     task.pc = "fetch" /\ tasks' = tasks (-) SetToBag({task})
               /\ UNCHANGED <<trade_ch, constructed, delivered, spawn_total, subVars, supVars>>]_vars

\* Of two dispatched signatures, the call for one failed and the trade of the
\* other has been sent, the read loop still reading.
C18_Witness ==
    /\ sub_pc = "read"
    /\ spawn_total = 2
    /\ fetch_calls = 2
    /\ fetch_failed = 1
    /\ delivered = 1

\* C19: the trade channel never holds more than its capacity; a trade a
\* fetch task has constructed is in its waiting task, in the channel or
\* received, never dropped; and with the main loop consuming, every
\* constructed trade is eventually received.
C19_BoundedChannelNoLoss ==
    /\ [](Len(trade_ch) <= TradeChanCap)
    /\ [](constructed = TasksAt("send") + delivered /\ delivered = Len(trade_ch) + received)
    /\ \A n \in 1..MaxSpawns : (constructed >= n) ~> (received >= n)

\* A task holds a constructed trade while the channel is full.
C19_Witness ==
    /\ Len(trade_ch) = TradeChanCap
    /\ TasksAt("send") >= 1
    /\ constructed = 2

\* A step in which a Text frame of the upstream feed fails to decode.
ParseFailure == text_parse' = "failed" /\ text_parse /= "failed"

\* C20, as stated: a Text frame that cannot be decoded as a JSON-RPC
\* notification ends the current subscription run (and so starts the
\* reconnect loop's backoff).
C20_AsStated == [][ParseFailure => sub_pc' = "sleep"]_vars

\* C20: a Text frame that cannot be decoded is skipped: the run goes on
\* reading with its seen-set, its tasks and the trade channel as they were;
\* a run in its read loop ends only on a frame that is not a Text frame
\* (Close, a read error, the end of the stream), and returns Ok.
C20_ParseFailureIsSkipped ==
    /\ [][ParseFailure
            => /\ sub_pc' = "read"
               /\ UNCHANGED <<run_result, log_notif, seen_signatures, notified, spawned,
                              taskVars, trade_ch>>]_vars
    /\ [][(sub_pc = "read" /\ sub_pc' /= "read")
            => (run_result' = "ok" /\ UNCHANGED text_parse)]_vars

\* A run that has seen a signature read a text that does not decode and is
\* still in its read loop.
C20_Witness ==
    /\ sub_pc = "read"
    /\ text_parse = "failed"
    /\ seen_signatures /= {}

\* C21: a connection moves forward only (not yet connected, registered,
\* closed): its id enters the registry once, at add_connection, and never
\* again; once its receive task or its send task has ended the id is
\* eventually out of the registry; and each removal, the second one for the
\* same id included, takes that id alone out of the registry.
C21_ConnectionLifecycle ==
    /\ [][\A c \in Conns :
            /\ (c \notin connections /\ c \in connections') => conn_pc[c] = "none"
            /\ conn_pc'[c] /= conn_pc[c] =>
                  <<conn_pc[c], conn_pc'[c]>> \in {<<"none", "wait">>, <<"wait", "done">>}
            /\ (conn_pc'[c] = "done" /\ conn_pc[c] = "wait") => connections' = connections \ {c}
            /\ (recv_pc'[c] = "done" /\ recv_pc[c] = "run") => connections' = connections \ {c}]_vars
    /\ \A c \in Conns : (recv_pc[c] = "done" \/ send_pc[c] = "done") ~> (c \notin connections)
    /\ \A c \in Conns : [](conn_pc[c] = "done" => c \notin connections)

\* Connection 1 was removed by its receive task and again by handle_socket
\* while connection 2 stays registered.
C21_Witness ==
    /\ conn_pc[1] = "done"
    /\ recv_pc[1] = "done"
    /\ connections = {2}

\* C22: the trades table holds at most one row per id, also when a
\* signature is dispatched again after the seen-set was cleared and both
\* fetches give a trade.
C22_AsStated ==
    \A i, j \in 1..Len(trades_table) :
        trades_table[i].id = trades_table[j].id => i = j

\* C23: every trade the main loop passes to store_trade has a finite price
\* >= 0, whatever trade arrived and whatever the oracle lookup gave.
C23_AsStated ==
    last_store /= None =>
        /\ is_finite(Unwrap(last_store).trade.price)
        /\ FGeZero(Unwrap(last_store).trade.price)

\* C24: when the oracle lookup of a tick fails, the tick ends there: nothing
\* is broadcast (no message is built, the receivers' buffers and the last
\* broadcast stay as they were), the lookup is not made again, and the price
\* task is back at its interval, from where the next tick fires.
C24_FailedLookupSkipsTick ==
    [][\A replies \in [TickMints -> HubReplies], now \in Clock :
          (/\ TickOracle(replies, now)
           /\ ~get_price(Unwrap(tick_mints)[1], Unwrap(tick_mints)[2], replies).ok)
              => /\ tick_pc' = "sleep"
                 /\ tick_msg' = None
                 /\ UNCHANGED chanVars
                 /\ (ENABLED TickFire)']_vars

\* A client is connected, the price task has made a lookup and is back at
\* its interval, and nothing has been broadcast so far.
C24_Witness ==
    /\ tick_pc = "sleep"
    /\ tick_mints /= None
    /\ last_broadcast = None
    /\ connections /= {}

\* The rows of the queried pair, their 1-minute buckets, and the sum of
\* amount * price over the first n rows of the table that lie in a bucket.
PairRows(call) ==
    {i \in DOMAIN trades_table : /\ trades_table[i].base_symbol = call.base_symbol
                                  /\ trades_table[i].quote_symbol = call.quote_symbol}

BucketOf(i) == trades_table[i].timestamp \div 60

RECURSIVE VolumeTo(_, _, _)
VolumeTo(call, bucket, n) ==
    IF n = 0 THEN F(0)
    ELSE IF n \in PairRows(call) /\ BucketOf(n) = bucket
         THEN FAdd(VolumeTo(call, bucket, n - 1), FMulInt(trades_table[n].price, trades_table[n].amount))
         ELSE VolumeTo(call, bucket, n - 1)

\* C25: when the stored trades of the queried pair fall into exactly two
\* 1-minute buckets, get_ohlcv with interval "1m" returns exactly two rows, in
\* ascending bucket time, one per bucket; in each row open is the price of a
\* trade of the bucket with no earlier trade in it, close the price of one
\* with no later trade in it, high and low the largest and smallest price of
\* the bucket, and volume the sum of amount * price over the bucket.
C25_TwoBuckets ==
    (ohlcv_out /= None /\ Unwrap(ohlcv_out).interval = "1m") =>
        LET call == Unwrap(ohlcv_out)
            out == call.rows
            buckets == {BucketOf(i) : i \in PairRows(call)}
            In(b) == {i \in PairRows(call) : BucketOf(i) = b}
        IN Cardinality(buckets) = 2 =>
            /\ Len(out) = 2
            /\ out[1].time < out[2].time
            /\ {out[1].time, out[2].time} = {b * 60 : b \in buckets}
            /\ \A k \in 1..2 :
                  LET g == In(out[k].time \div 60)
                  IN /\ \E i \in g : /\ out[k].open = trades_table[i].price
                                      /\ \A j \in g : trades_table[i].timestamp <= trades_table[j].timestamp
                     /\ \E i \in g : /\ out[k].close = trades_table[i].price
                                      /\ \A j \in g : trades_table[j].timestamp <= trades_table[i].timestamp
                     /\ \E i \in g : /\ out[k].high = trades_table[i].price
                                      /\ \A j \in g : FLe(trades_table[j].price, out[k].high)
                     /\ \E i \in g : /\ out[k].low = trades_table[i].price
                                      /\ \A j \in g : FLe(out[k].low, trades_table[j].price)
                     /\ out[k].volume = VolumeTo(call, out[k].time \div 60, Len(trades_table))

\* A "1m" query of SOL/USDC over a table whose SOL rows lie in two buckets,
\* one of them holding two trades of different prices.
C25_Witness ==
    /\ ohlcv_out /= None
    /\ Unwrap(ohlcv_out).interval = "1m"
    /\ Unwrap(ohlcv_out).base_symbol = <<"SOL">>
    /\ Len(Unwrap(ohlcv_out).rows) = 2
    /\ Unwrap(ohlcv_out).rows[1].open /= Unwrap(ohlcv_out).rows[1].close
    /\ Unwrap(ohlcv_out).rows[1].volume /= Unwrap(ohlcv_out).rows[2].volume

C27_BaseQuoteByRank ==
    (ct_pc = "done" /\ ct_out /= None) =>
        LET trade == Unwrap(ct_out)
        IN /\ <<trade.base_mint, trade.quote_mint>> \in TopTwo(tx_data)
           /\ trade.amount = DeltaOf(tx_data, trade.base_mint)
           /\ trade.price = Fin(DeltaOf(tx_data, trade.quote_mint), DeltaOf(tx_data, trade.base_mint))

\* A trade was returned for a record in which three mints changed, by
\* different amounts in base and quote.
C27_Witness ==
    /\ ct_pc = "done"
    /\ ct_out /= None
    /\ Cardinality(ChangedMints(tx_data)) = 3
    /\ Unwrap(ct_out).price /= F(1)

\* C28: construct_trade returns nothing for every record without metadata
\* and for every record in which fewer than two mints have a nonzero
\* aggregated delta.
C28_TooFewMintsRejected ==
    (ct_pc = "done" /\ (tx_data.meta = None \/ Cardinality(ChangedMints(tx_data)) < 2))
        => ct_out = None

\* Nothing was returned for a record with metadata in which exactly one
\* mint changed, an allow-listed one.
C28_Witness ==
    /\ ct_pc = "done"
    /\ ct_out = None
    /\ tx_data.meta /= None
    /\ \E m \in AllowList : ChangedMints(tx_data) = {m}

\* C29: in every Trade construct_trade returns, side is "buy" exactly when
\* the base mint's aggregated post balance is above its aggregated pre
\* balance, and "sell" otherwise; it is never "price".
C29_SideFromBaseDelta ==
    (ct_pc = "done" /\ ct_out /= None) =>
        LET trade == Unwrap(ct_out)
            rises == PostOf(tx_data, trade.base_mint) > PreOf(tx_data, trade.base_mint)
        IN /\ trade.side \in {"buy", "sell"}
           /\ trade.side = "buy" <=> rises

\* A "sell" was returned for a record whose base and quote moved in
\* opposite directions.
C29_Witness ==
    /\ ct_pc = "done"
    /\ ct_out /= None
    /\ Unwrap(ct_out).side = "sell"
    /\ PostOf(tx_data, Unwrap(ct_out).quote_mint) > PreOf(tx_data, Unwrap(ct_out).quote_mint)

\* C30 as stated: a second call of construct_trade with the same signature,
\* slot and record returns what the first call returned, whatever order the
\* hash map yields its entries in and whatever the clock reads.
C30_AsStated ==
    ct_pc = "done" =>
        \A iter_order \in IterOrders(tx_data), now \in Clock :
            construct_trade(CallSignature, CallSlot, tx_data, iter_order, now) = ct_out

\* A mint's balance is spread over accounts whose changes cancel: its
\* entries are not the same in the two snapshots, and its pre and post sums
\* are equal.
Cancels(record, mint) ==
    /\ record.meta /= None
    /\ PreOf(record, mint) = PostOf(record, mint)
    /\ PreOf(record, mint) > 0
    /\ record.meta[1].pre_token_balances /= None /\ record.meta[1].post_token_balances /= None
    /\ LET pre == record.meta[1].pre_token_balances[1]
           post == record.meta[1].post_token_balances[1]
           Of(balances) == SelectSeq(balances, LAMBDA b : b.mint = mint)
       IN Of(pre) /= Of(post)

\* C31: the deltas are taken from the per-mint sums over all accounts, so a
\* mint whose summed post balance equals its summed pre balance is neither
\* base nor quote of a returned trade, whatever its single accounts did:
\* base and quote are mints whose sums differ.
C31_CancelledMintNeverChosen ==
    (ct_pc = "done" /\ ct_out /= None) =>
        /\ \A m \in KnownMints :
              PostOf(tx_data, m) = PreOf(tx_data, m)
                  => m \notin {Unwrap(ct_out).base_mint, Unwrap(ct_out).quote_mint}
        /\ {Unwrap(ct_out).base_mint, Unwrap(ct_out).quote_mint} \subseteq ChangedMints(tx_data)

\* A trade was returned for a record in which an allow-listed mint moved
\* between accounts with no net change.
C31_Witness ==
    /\ ct_pc = "done"
    /\ ct_out /= None
    /\ \E m \in AllowList : Cancels(tx_data, m)

C33_FailedSignatureBlocksRetry ==
    [][(sub_pc = "read" /\ notified' /= notified) =>
          LET log == Unwrap(log_notif')
          IN /\ log.signature \in seen_signatures =>
                    /\ tasks' = tasks
                    /\ spawned' = spawned
                    /\ seen_signatures' = seen_signatures
             /\ (log.signature \notin seen_signatures /\ Cardinality(seen_signatures) < SeenCap) =>
                    log.signature \in seen_signatures']_vars

\* The notification handled last carries no error, its signature was
\* notified before in this run and is in the set, and no fetch task was
\* ever spawned for it.
C33_Witness ==
    /\ sub_pc = "read"
    /\ log_notif /= None
    /\ Unwrap(log_notif).err = None
    /\ Unwrap(log_notif).signature \in seen_signatures
    /\ notified[Unwrap(log_notif).signature] >= 2
    /\ spawned[Unwrap(log_notif).signature] = 0
    /\ spawn_total = 0

\* C34: every run starts with an empty seen-set, so the first notification
\* of a signature in a run, when it carries no error, spawns a fetch task,
\* also for a signature that an earlier run has already dispatched.
C34_SeenSetIsPerRun ==
    /\ [][(sub_pc = "connect" /\ sub_pc' = "read") => seen_signatures' = {}]_vars
    /\ [](\A sig \in Sigs :
            (/\ sub_pc = "read"
             /\ log_notif /= None
             /\ Unwrap(log_notif).signature = sig
             /\ Unwrap(log_notif).err = None
             /\ notified[sig] = 1) => spawned[sig] = 1)

\* Two fetch tasks exist for one signature, one of them spawned in the
\* current run, which has been notified of that signature once.
C34_Witness ==
    \E sig \in Sigs, slot \in Slots :
        /\ sub_pc = "read"
        /\ notified[sig] = 1
        /\ spawned[sig] = 1
        /\ CopiesIn(FetchTask(sig, slot), tasks) = 2

\* C35: the reconnect task is in one call of start_subscription at a time.
\* A call is entered only from the task's 5 s wait, the wait is entered only
\* by a call returning (Ok or an error), and the read loop is entered only
\* by the call in progress: no second run starts beside a running one.
C35_OneRunAtATime ==
    [][/\ (sub_pc' = "connect" /\ sub_pc /= "connect") => sub_pc = "sleep"
       /\ (sub_pc' = "sleep" /\ sub_pc /= "sleep") =>
              /\ sub_pc \in {"connect", "read"}
              /\ run_result' = IF sub_pc = "read" THEN "ok" ELSE "err"
       /\ (sub_pc' = "read" /\ sub_pc /= "read") =>
              /\ sub_pc = "connect"
              /\ run_result' = "none"
              /\ seen_signatures' = {}]_vars

\* A later run is in its read loop, before its first notification, after
\* an earlier run has spawned a fetch task and returned.
C35_Witness ==
    /\ sub_pc = "read"
    /\ spawn_total >= 1
    /\ \A sig \in Sigs : notified[sig] = 0

\* C36: the end of a run cancels nothing: the step in which the read loop
\* ends leaves the fetch tasks and the trade channel as they were.  A trade
\* constructed while no run is reading (its run has returned) is held by
\* its task, in the channel or received, and is eventually received and
\* taken through store_trade and the broadcast by the main loop.
C36_TasksOutliveRun ==
    /\ [][(sub_pc = "read" /\ sub_pc' /= "read") => (tasks' = tasks /\ trade_ch' = trade_ch)]_vars
    /\ [][constructed' > constructed => sub_pc /= "read"]_vars
    /\ [](constructed = TasksAt("send") + delivered /\ delivered = Len(trade_ch) + received)
    /\ \A n \in 1..MaxSpawns :
          (constructed >= n) ~> (received >= n /\ sup_pc = "recv" /\ last_broadcast /= None)

\* The run has returned and the reconnect is pending; the trade constructed
\* since then has been received, inserted and broadcast.
C36_Witness ==
    /\ sub_pc = "sleep"
    /\ spawn_total = 1
    /\ constructed = 1
    /\ received = 1
    /\ sup_pc = "recv"
    /\ Len(trades_table) = 1
    /\ trades_table[1].id = Sig(1)
    /\ last_broadcast /= None

\* C37: what a connection's send task receives is what was published from
\* its add_connection on, in order, without gap or duplicate, until the task
\* ends.  Stated on the messages the channel holds for the connection's
\* receive handle: there are none without a handle and none at registration;
\* a broadcast with an empty registry changes no handle's messages, and any
\* other broadcast appends its message to every handle with room; a handle
\* without room loses its oldest message and is marked as lagging; the send
\* task takes the oldest message only, and never from a lagging handle: its
\* next turn on a lagging handle ends it.
C37_GapFreeDelivery ==
    /\ [](\A c \in Conns : ~rx_alive[c] => (rxq[c] = <<>> /\ ~lagged[c]))
    /\ [][\A c \in Conns :
            /\ (conn_pc[c] = "none" /\ conn_pc'[c] = "wait") => (rx_alive'[c] /\ rxq'[c] = <<>>)
            /\ BroadcastStep =>
                  IF connections = {} \/ ~rx_alive[c] THEN rxq'[c] = rxq[c] /\ lagged'[c] = lagged[c]
                  ELSE IF Len(rxq[c]) < BroadcastCap
                       THEN rxq'[c] = Append(rxq[c], Unwrap(tick_msg)) /\ lagged'[c] = lagged[c]
                       ELSE lagged'[c]
            /\ (~BroadcastStep /\ rxq'[c] /= rxq[c]) =>
                  /\ send_pc[c] = "run"
                  /\ \/ ~lagged[c] /\ rxq'[c] = Tail(rxq[c]) /\ send_pc'[c] = "run"
                     \/ send_pc'[c] = "done" /\ rxq'[c] = <<>>
            /\ (lagged[c] /\ ~lagged'[c]) => send_pc'[c] = "done"]_vars

\* The second connection registered after a message was published: the
\* first holds two messages, the second only the later one.
C37_Witness ==
    /\ send_pc[1] = "run" /\ send_pc[2] = "run"
    /\ connections = {1, 2}
    /\ Len(rxq[1]) = 2
    /\ Len(rxq[2]) = 1
    /\ rxq[2][1] = rxq[1][2]
    /\ rxq[1][1] /= rxq[1][2]

\* C38 as stated: the selected pair changes only while a registered
\* connection has its receive task running: once the registry holds no such
\* connection, no select_pair frame changes the selection.
C38_AsStated ==
    [][selected_pair' /= selected_pair => \E c \in connections : recv_pc[c] = "run"]_vars

\* C39 as stated: once handle_socket has removed a connection and returned,
\* both of the connection's tasks end and its receiver of the broadcast channel
\* is dropped, whether or not another message is published.
C39_AsStated ==
    \A c \in Conns :
        (conn_pc[c] = "done") ~> (recv_pc[c] = "done" /\ send_pc[c] = "done" /\ ~rx_alive[c])

\* The stored selection does not resolve to two allow-listed mints.
Unresolvable == pair_to_mints(selected_pair) = None

\* C40 as stated: while the stored selection does not resolve through
\* pair_to_mints, the price task starts no oracle query and broadcasts no
\* pseudo-trade.
C40_AsStated ==
    [][Unresolvable => ~(tick_pc = "read" /\ tick_pc' = "query") /\ ~BroadcastStep]_vars

\* C40: set_selected_pair stores any string as it is; a tick that reads a
\* stored selection that does not resolve through pair_to_mints makes no
\* oracle query and broadcasts nothing (a tick is querying or broadcasting
\* only for a pair that resolved when the tick read it); and the selection
\* changes only by a select_pair frame, to that frame's string.
C40_UnresolvableSelectionSkipsTick ==
    /\ [](last_select /= None => selected_pair = Unwrap(last_select))
    /\ [](tick_pc \in {"query", "broadcast"} => pair_to_mints(Unwrap(tick_pair)) /= None)
    /\ [][(tick_pc = "read" /\ tick_pc' /= "read" /\ Unresolvable)
             => (tick_pc' = "sleep" /\ tick_pair' = Some(selected_pair)
                 /\ UNCHANGED <<tick_msg, selVars, chanVars>>)]_vars
    /\ [][selected_pair' /= selected_pair
             => (recv_log' = "Pair updated" /\ last_select' = Some(selected_pair'))]_vars

\* A client has selected a pair with a symbol outside the allow-list, a tick
\* has read it and ended, and the cell still holds it.
C40_Witness ==
    /\ selected_pair = <<"DOGE", "/", "USDC">>
    /\ tick_pair = Some(selected_pair)
    /\ tick_pc = "sleep"
    /\ tick_msg = None
    /\ connections /= {}

=============================================================================
